---- MODULE Spec2Model ----
(***************************************************************************)
(* Clyrdia contract-analysis API: the request admission and orchestration  *)
(* layer (rate limiter, cache manager, /analyze handler).                  *)
(*                                                                         *)
(* Time is the wall clock read by time.time(), in whole seconds, and does  *)
(* not run backwards.                                                      *)
(***************************************************************************)
EXTENDS Integers, Sequences, FiniteSets, TLC

VARIABLES
    now,              \* the clock: what time.time() returns
    ticks,            \* how many times the clock has advanced (bounded)
    minute_requests,  \* RateLimiter.minute_requests: client -> list of timestamps
    hour_requests,    \* RateLimiter.hour_requests:   client -> list of timestamps
    rl_log,           \* history: client -> its is_allowed calls, <<[time, ret]>>
    redis_client,     \* CacheManager.redis_client: "none" or "client"
    redis_up,         \* whether the Redis server answers
    store,            \* the Redis database: key -> [val, exp]
    tasks,            \* the coroutines using the cache: task -> its position and locals
    ops,              \* how many cache operations have been started (bounded)
    last_step,        \* what the last step did (the operation it completed, if any)
    written,          \* user key -> the last write to it: [set, due]
    handlers,         \* the /analyze requests in progress: slot -> position and locals
    an_log,           \* history: the /analyze requests answered, in order
    events,           \* history: how many requests have started or ended
    db,               \* the database: rows of contract_analyses and contract_issues
    batch,            \* the batch_analyze_contracts task: its position and locals
    job               \* a single job (analysis or reanalysis): its position and state

rlVars == <<minute_requests, hour_requests, rl_log>>
cacheVars == <<redis_client, redis_up, store, tasks, ops, last_step, written>>
anVars == <<handlers, an_log, events, db, batch, job>>
vars == <<now, ticks, minute_requests, hour_requests, rl_log,
          redis_client, redis_up, store, tasks, ops, last_step, written,
          handlers, an_log, events, db, batch, job>>

(***************************************************************************)
(* Bounds of the model                                                     *)
(***************************************************************************)
MaxTicks == 3
MaxCalls == 4
\* settings.rate_limit_per_minute / rate_limit_per_hour (configuration,
\* defaults 60 and 1000), scaled down
requests_per_minute == 2
requests_per_hour == 3

Clients == {"c1", "c2"}
\* Clock advances: just under a minute, exactly a minute, and the rest of an
\* hour, so that calls 59, 60, 3599, 3600 and more than 3600 s apart are all
\* reachable.
Jumps == {59, 60, 3540}

(***************************************************************************)
(* RateLimiter (app/core/security.py)                                      *)
(***************************************************************************)
MinuteWindow == 60
HourWindow == 3600

EmptyMap == [c \in {} |-> <<>>]

\* req_time > horizon: the list comprehension of _cleanup_old_entries
KeepRecent(reqs, horizon) ==
    LET Recent(t) == t > horizon IN SelectSeq(reqs, Recent)

\* mutant: the lists are filtered but a client whose list became empty keeps
\* its entry
cleanup_keep_empty(requests, horizon) ==
    [c \in DOMAIN requests |-> KeepRecent(requests[c], horizon)]

\* RateLimiter._cleanup_old_entries, one of its two loops (they differ in the
\* dictionary and the horizon only): every known client's list is filtered,
\* and a client whose list became empty is deleted.
cleanup_old_entries(requests, horizon) ==
    LET kept == {c \in DOMAIN requests : KeepRecent(requests[c], horizon) # <<>>}
    IN  [c \in kept |-> KeepRecent(requests[c], horizon)]

\* `if client_id not in d: d[client_id] = []`
WithEntry(requests, client_id) ==
    IF client_id \in DOMAIN requests
    THEN requests
    ELSE [c \in DOMAIN requests \cup {client_id} |->
             IF c = client_id THEN <<>> ELSE requests[c]]

\* mutant: off-by-one comparison
MinuteFullOffByOne(reqs) == Len(reqs) > requests_per_minute

\* len(self.minute_requests[client_id]) >= self.requests_per_minute
MinuteFull(reqs) == Len(reqs) >= requests_per_minute

\* mutant: off-by-one comparison
HourFullOffByOne(reqs) == Len(reqs) > requests_per_hour

\* len(self.hour_requests[client_id]) >= self.requests_per_hour
HourFull(reqs) == Len(reqs) >= requests_per_hour

\* mutant: the timestamp is recorded in the minute window before the hour
\* limit is checked.
is_allowed_record_early(minute, hour, client_id, current_time) ==
    LET m1 == WithEntry(cleanup_old_entries(minute, current_time - MinuteWindow), client_id)
        h1 == cleanup_old_entries(hour, current_time - HourWindow)
        h2 == WithEntry(h1, client_id)
        m2 == [m1 EXCEPT ![client_id] = Append(@, current_time)]
    IN  IF MinuteFull(m1[client_id])
        THEN [ret |-> FALSE, minute |-> m1, hour |-> h1]
        ELSE IF HourFull(h2[client_id])
        THEN [ret |-> FALSE, minute |-> m2, hour |-> h2]
        ELSE [ret |-> TRUE,
              minute |-> m2,
              hour   |-> [h2 EXCEPT ![client_id] = Append(@, current_time)]]

\* mutant: the minute limit counts the requests of all clients together
is_allowed_shared(minute, hour, client_id, current_time) ==
    LET m1 == WithEntry(cleanup_old_entries(minute, current_time - MinuteWindow), client_id)
        h1 == cleanup_old_entries(hour, current_time - HourWindow)
        h2 == WithEntry(h1, client_id)
        all == UNION {{<<c, i>> : i \in 1..Len(m1[c])} : c \in DOMAIN m1}
    IN  IF Cardinality(all) >= requests_per_minute
        THEN [ret |-> FALSE, minute |-> m1, hour |-> h1]
        ELSE IF HourFull(h2[client_id])
        THEN [ret |-> FALSE, minute |-> m1, hour |-> h2]
        ELSE [ret |-> TRUE,
              minute |-> [m1 EXCEPT ![client_id] = Append(@, current_time)],
              hour   |-> [h2 EXCEPT ![client_id] = Append(@, current_time)]]

\* RateLimiter.is_allowed: the value returned and the two dictionaries it
\* leaves behind.  The method is synchronous (no await), so on the event loop
\* it runs to completion: one call is one step.
is_allowed(minute, hour, client_id, current_time) ==
    LET m1 == WithEntry(cleanup_old_entries(minute, current_time - MinuteWindow), client_id)
        h1 == cleanup_old_entries(hour, current_time - HourWindow)
        h2 == WithEntry(h1, client_id)
    IN  IF MinuteFull(m1[client_id])
        THEN [ret |-> FALSE, minute |-> m1, hour |-> h1]
        ELSE IF HourFull(h2[client_id])
        THEN [ret |-> FALSE, minute |-> m1, hour |-> h2]
        ELSE [ret |-> TRUE,
              minute |-> [m1 EXCEPT ![client_id] = Append(@, current_time)],
              hour   |-> [h2 EXCEPT ![client_id] = Append(@, current_time)]]

(***************************************************************************)
(* Python values.  Every value is a record [py, n, s, items]: its type, a   *)
(* number, a text, and the values it contains (a list's elements, a        *)
(* dict's values in the order of its keys).                                *)
(***************************************************************************)
Py(kind, n, s) == [py |-> kind, n |-> n, s |-> s, items |-> <<>>]
None == Py("None", 0, "")
PyBool(b) == Py("bool", IF b THEN 1 ELSE 0, "")
PyInt(n) == Py("int", n, "")
PyStr(s) == Py("str", 0, s)
\* a datetime object: a value json cannot encode natively
PyDatetime(n) == Py("datetime", n, "")
\* a member of an Enum class that derives from str
PyEnum(s) == Py("enum", 0, s)
PyList(items) == [py |-> "list", n |-> 0, s |-> "", items |-> items]
PyDict(items) == [py |-> "dict", n |-> 0, s |-> "", items |-> items]
\* str(v) of a value that is not a str: a text determined by the value
StrOf(v) == Py("str", v.n, v.py)
\* an exception on its way up the call stack
Raised == Py("raised", 0, "")

JSONNative == {"None", "bool", "int", "float", "str"}

\* mutant: the encoder is taken to be lossless
json_dumps_lossless(value) == [json |-> value]

\* what json.dumps(..., default=str) writes for a value: containers element
\* by element, a str-derived enum member as its text, a value json cannot
\* encode as str(value)
RECURSIVE Encoded(_)
Encoded(value) ==
    IF value.py \in {"list", "dict"}
    THEN [value EXCEPT !.items = [i \in 1..Len(value.items) |-> Encoded(value.items[i])]]
    ELSE IF value.py = "enum" THEN PyStr(value.s)
    ELSE IF value.py \in JSONNative THEN value
    ELSE StrOf(value)

\* json.dumps(value, default=str): the JSON text, held as the JSON value it
\* denotes
json_dumps(value) == [json |-> Encoded(value)]

\* json.loads(text)
json_loads(text) == text.json

\* bool(value)
Truthy(value) ==
    /\ value.py # "None"
    /\ value.py \in {"bool", "int", "float"} => value.n # 0
    /\ value.py = "str" => value.s # "" \/ value.n # 0
    /\ value.py \in {"list", "dict"} => value.items # <<>>

(***************************************************************************)
(* The Redis server, one database: key -> [val, exp].  A key is            *)
(* [prefix, rest]; exp is the instant the key expires, or NoExpiry.  The   *)
(* store holds live keys only: ExpireKeys runs whenever the clock moves.   *)
(***************************************************************************)
NoExpiry == -1
Missing == [json |-> Py("missing", 0, "")]

md5(key) == <<"md5", key>>

\* mutant: every key hashes into one slot
generate_key_constant(key) == [prefix |-> "clyrdia:", rest |-> md5("")]

\* CacheManager._generate_key
generate_key(key) == [prefix |-> "clyrdia:", rest |-> md5(key)]

\* a key of some other user of the same Redis database
ForeignKey == [prefix |-> "session:", rest |-> <<"raw", "1">>]

Restrict(st, K) == [k \in K |-> st[k]]
Put(st, k, e) == [x \in DOMAIN st \cup {k} |-> IF x = k THEN e ELSE st[x]]

\* mutant: KEYS *
R_KEYS_all(st) == DOMAIN st

\* KEYS clyrdia:*
R_KEYS(st) == {k \in DOMAIN st : k.prefix = "clyrdia:"}
\* GET key
R_GET(st, k) == IF k \in DOMAIN st THEN st[k].val ELSE Missing
\* TTL key: -2 no such key, -1 no expiry, else the seconds left
R_TTL(st, k, t) ==
    IF k \notin DOMAIN st THEN -2
    ELSE IF st[k].exp = NoExpiry THEN -1 ELSE st[k].exp - t
\* SETEX key ttl value (the server refuses ttl <= 0)
R_SETEX(st, k, ttl, text, t) == Put(st, k, [val |-> text, exp |-> t + ttl])
\* DEL keys
R_DEL(st, K) == Restrict(st, DOMAIN st \ K)
\* INCRBY key amount (the server refuses a value that is no integer)
R_INCRBY_OK(st, k) == k \in DOMAIN st => st[k].val.json.py = "int"
R_INCRBY(st, k, amount) ==
    IF k \in DOMAIN st
    THEN Put(st, k, [val |-> [json |-> PyInt(st[k].val.json.n + amount)],
                     exp |-> st[k].exp])
    ELSE Put(st, k, [val |-> [json |-> PyInt(amount)], exp |-> NoExpiry])
\* EXPIRE key ttl
R_EXPIRE(st, k, ttl, t) ==
    IF k \in DOMAIN st THEN Put(st, k, [val |-> st[k].val, exp |-> t + ttl]) ELSE st
\* what the server does as time passes
ExpireKeys(st, t) ==
    Restrict(st, {k \in DOMAIN st : st[k].exp = NoExpiry \/ st[k].exp > t})

(***************************************************************************)
(* CacheManager (app/core/cache.py)                                        *)
(***************************************************************************)
\* settings.cache_ttl and settings.cache_max_size (configuration, defaults
\* 3600 and 1000), scaled down
default_ttl == 2
max_size == 2
EvictDivisor == 10

\* a backend call goes through when there is a client and the server answers
Reachable == redis_client = "client" /\ redis_up

\* mutant: the handler lets the exception through
CatchNothing(r, fallback) == r

\* try: ... except Exception as e: logger.error(...); return fallback
Catch(r, fallback) == IF r = Raised THEN fallback ELSE r

\* mutant: the given ttl is used as it is
effective_ttl_raw(ttl) == ttl

\* ttl = ttl or self.default_ttl
effective_ttl(ttl) == IF ttl = 0 THEN default_ttl ELSE ttl

\* mutant: the size check is off by one
size_limit_reached_strict(keys) == Cardinality(keys) > max_size

\* len(keys) >= self.max_size
size_limit_reached(keys) == Cardinality(keys) >= max_size

Max(a, b) == IF a >= b THEN a ELSE b

\* mutant: nothing is evicted from a small cache
to_remove_floor(n) == n \div EvictDivisor

\* to_remove = max(1, len(key_ttls) // 10)
to_remove(n) == Max(1, n \div EvictDivisor)

\* mutant: every key enumerated is a candidate
considered_any(ttl) == TRUE

\* `if ttl > 0:  # Only consider keys with TTL`
considered(ttl) == ttl > 0

\* mutant: the candidates are cut without being sorted
SortByTtl_unsorted(seq) == seq

\* list.sort(key=lambda x: x[1]): stable, ascending by the ttl read
RECURSIVE InsertByTtl(_, _)
InsertByTtl(sorted, e) ==
    IF sorted = <<>> THEN <<e>>
    ELSE IF sorted[Len(sorted)][2] <= e[2] THEN Append(sorted, e)
    ELSE Append(InsertByTtl(SubSeq(sorted, 1, Len(sorted) - 1), e),
                sorted[Len(sorted)])
RECURSIVE SortByTtl(_)
SortByTtl(seq) ==
    IF seq = <<>> THEN <<>>
    ELSE InsertByTtl(SortByTtl(SubSeq(seq, 1, Len(seq) - 1)), seq[Len(seq)])

\* key_ttls.sort(...); key_ttls[:to_remove]: the keys to delete, in order
Victims(key_ttls) ==
    LET sorted == SortByTtl(key_ttls)
        n == IF to_remove(Len(sorted)) <= Len(sorted)
             THEN to_remove(Len(sorted)) ELSE Len(sorted)
    IN  [i \in 1..n |-> sorted[i][1]]

\* the value an operation returns when the cache is unavailable
FailValue(op) == IF op \in {"get", "increment"} THEN None ELSE PyBool(FALSE)

(***************************************************************************)
(* The coroutines that use the cache.  A step is what runs between two     *)
(* awaits: one backend call and the code up to the next one.               *)
(***************************************************************************)
Tasks == {"t1", "t2"}
CacheKeys == {"a", "b", "c"}
CacheValues == {PyStr("ok"), PyDatetime(5)}
\* ttl arguments: 0 stands for None (and 0), -1 for a ttl the server refuses
TtlArgs == {0, 1, -1}
ExpireArgs == {3}
MaxOps == 2
MaxSeconds == 2

IdleTask ==
    [pc |-> "idle", op |-> "-", key |-> "", val |-> None, ttl |-> 0,
     before |-> {}, atmax |-> FALSE, todo |-> {}, key_ttls |-> <<>>,
     cands |-> 0, victims |-> <<>>, evicted |-> {}, anyfail |-> FALSE,
     solo |-> TRUE]

\* what is known of the last write to a key: whether it was a set, and the
\* instant its ttl has elapsed
NoWrite == [set |-> FALSE, due |-> 0]
Write(t, ttl) == [set |-> TRUE, due |-> t + ttl]

\* a step that completes no operation
Step(kind) ==
    [kind |-> kind, op |-> "-", key |-> "", val |-> None,
     ttl |-> 0, ret |-> None, noclient |-> FALSE, ownfail |-> FALSE,
     anyfail |-> FALSE, solo |-> TRUE, atmax |-> FALSE, before |-> {},
     cands |-> 0, evicted |-> {}]

\* the step that completes operation op of task t
Done(t, op, key, val, ttl, ret, noclient, ownfail) ==
    [Step("done") EXCEPT !.op = op, !.key = key, !.val = val,
                         !.ttl = ttl, !.ret = ret, !.noclient = noclient,
                         !.ownfail = ownfail, !.anyfail = ownfail]

\* a step of task t (or of the environment, "env") interferes with every
\* operation under way in another task
Interfere(ts, t) ==
    [u \in Tasks |-> IF u # t /\ ts[u].pc # "idle"
                     THEN [ts[u] EXCEPT !.solo = FALSE] ELSE ts[u]]

(***************************************************************************)
(* Texts.  A text is a sequence of pieces; Str is the string it spells.    *)
(***************************************************************************)
RECURSIVE Str(_)
Str(text) == IF text = <<>> THEN "" ELSE Head(text) \o Str(Tail(text))

\* a str put together from pieces (an f-string): the pieces are kept in items
PyText(parts) == [py |-> "str", n |-> 0, s |-> Str(parts), items |-> parts]

\* sep.join(parts), parts being strings
RECURSIVE Join(_, _)
Join(parts, sep) ==
    IF parts = <<>> THEN ""
    ELSE IF Len(parts) = 1 THEN parts[1]
    ELSE parts[1] \o sep \o Join(Tail(parts), sep)

\* hashlib.sha256(...).hexdigest(): a string determined by the content
sha256(content) == "sha256(" \o content \o ")"

IsPrefix(pattern, text) ==
    Len(pattern) <= Len(text) /\ SubSeq(text, 1, Len(pattern)) = pattern

\* text.replace(pattern, ""): one pass from the left
RECURSIVE Replace(_, _)
Replace(text, pattern) ==
    IF text = <<>> THEN <<>>
    ELSE IF IsPrefix(pattern, text)
    THEN Replace(SubSeq(text, Len(pattern) + 1, Len(text)), pattern)
    ELSE <<Head(text)>> \o Replace(Tail(text), pattern)

RECURSIVE ReplaceEach(_, _)
ReplaceEach(text, patterns) ==
    IF patterns = <<>> THEN text
    ELSE ReplaceEach(Replace(text, Head(patterns)), Tail(patterns))

Whitespace == {" ", "\n"}

RECURSIVE LStrip(_)
LStrip(text) ==
    IF text # <<>> /\ Head(text) \in Whitespace THEN LStrip(Tail(text)) ELSE text
RECURSIVE RStrip(_)
RStrip(text) ==
    IF text # <<>> /\ text[Len(text)] \in Whitespace
    THEN RStrip(SubSeq(text, 1, Len(text) - 1)) ELSE text
\* text.strip()
Strip(text) == LStrip(RStrip(text))

\* dangerous_chars, in the order of the list
dangerous_chars ==
    << <<"<">>, <<">">>, <<"&">>, <<"\"">>, <<"'">>,
       <<"java", "script:">>, <<"da", "ta:">> >>

\* the length at which sanitize_input cuts
MaxInputLength == 10000

\* sanitized[:n], as far as whole pieces go
RECURSIVE Truncate(_, _)
Truncate(text, n) ==
    IF text = <<>> \/ Len(Head(text)) > n THEN <<>>
    ELSE <<Head(text)>> \o Truncate(Tail(text), n - Len(Head(text)))

\* sanitize_input: each entry of dangerous_chars is replaced by "" once, in
\* the order of the list, the result is cut and stripped
sanitize_input(text) ==
    IF text = <<>> THEN <<>>
    ELSE LET sanitized == ReplaceEach(text, dangerous_chars)
         IN  Strip(IF Len(Str(sanitized)) > MaxInputLength
                   THEN Truncate(sanitized, MaxInputLength) ELSE sanitized)

\* text.split('\n')
RECURSIVE SplitLines(_, _)
SplitLines(text, line) ==
    IF text = <<>> THEN <<line>>
    ELSE IF Head(text) = "\n" THEN <<line>> \o SplitLines(Tail(text), <<>>)
    ELSE SplitLines(Tail(text), Append(line, Head(text)))

\* sep.join(parts), parts being texts
RECURSIVE JoinTexts(_, _)
JoinTexts(parts, sep) ==
    IF parts = <<>> THEN <<>>
    ELSE IF Len(parts) = 1 THEN parts[1]
    ELSE parts[1] \o <<sep>> \o JoinTexts(Tail(parts), sep)

\* ' '.join(line.split())
CleanLine(line) ==
    LET words == SelectSeq(line, LAMBDA w : w \notin Whitespace)
    IN  JoinTexts([i \in 1..Len(words) |-> <<words[i]>>], " ")

\* DocumentService.sanitize_text
sanitize_text(text) ==
    IF text = <<>> THEN <<>>
    ELSE LET lines == SplitLines(text, <<>>)
             cleaned == [i \in 1..Len(lines) |-> CleanLine(lines[i])]
         IN  Strip(JoinTexts(SelectSeq(cleaned, LAMBDA l : l # <<>>), "\n"))

MinContentLength == 50
MinIndicators == 2
document_indicators ==
    {"contract", "agreement", "terms", "conditions", "clause", "party",
     "parties", "effective date", "termination", "liability",
     "indemnification", "governing law"}

\* DocumentService.validate_document_content
validate_document_content(text) ==
    /\ Strip(text) # <<>>
    /\ Len(Str(Strip(text))) >= MinContentLength
    /\ Cardinality({w \in document_indicators :
                      \E i \in 1..Len(text) : text[i] = w}) >= MinIndicators

(***************************************************************************)
(* What an /analyze request carries, and what the handler keeps of it.     *)
(***************************************************************************)
\* an upload: whether there is one, whether its size is within
\* settings.max_file_size, whether its type is supported, whether its text
\* can be extracted, its bytes and the text extracted from them
NoFile ==
    [present |-> FALSE, size_ok |-> TRUE, supported |-> TRUE,
     readable |-> TRUE, content |-> "", text |-> <<>>]
GoodFile ==
    [present |-> TRUE, size_ok |-> TRUE, supported |-> TRUE,
     readable |-> TRUE, content |-> "pdf-1",
     text |-> <<"this", " ", "agreement", " ", " ", "sets", " ", "out", " ",
                "the", " ", "terms", "\n", "\n", "of", " ", "the", " ",
                "contract", " ", "between", " ", "the", " ", "parties">>]
BigFile == [GoodFile EXCEPT !.size_ok = FALSE, !.content = "pdf-2"]

NoInput ==
    [contract_text |-> <<>>, file_upload |-> NoFile, industry |-> None,
     analysis_type |-> <<>>]

\* the requests that are sent: nothing to analyse, a text with its analysis
\* types in one order and in the other, an upload, and an upload that is too
\* large.  In contract_text <<>> stands for None and for "".
Inputs ==
    {NoInput,
     [NoInput EXCEPT !.contract_text = <<"nda", "<">>,
                     !.industry = PyStr("tech"),
                     !.analysis_type = <<"legal", "financial">>],
     [NoInput EXCEPT !.contract_text = <<"nda", "<">>,
                     !.industry = PyStr("tech"),
                     !.analysis_type = <<"financial", "legal">>],
     [NoInput EXCEPT !.file_upload = GoodFile,
                     !.analysis_type = <<"legal", "financial", "compliance">>],
     [NoInput EXCEPT !.file_upload = BigFile,
                     !.analysis_type = <<"legal", "financial", "compliance">>]}

\* what the model answers: analysis_result, or nothing
NoResult == [overall_risk |-> "", overall_risk_score |-> 0, issues |-> <<>>]
\* an issue as the prompt asks for it, and one with every field of ContractIssue
PromptIssue == [fields |-> "prompt"]
SchemaIssue == [fields |-> "schema"]
\* the last two carry a risk level that is none and a score out of range
ModelResults ==
    {[overall_risk |-> "medium", overall_risk_score |-> 50, issues |-> <<>>],
     [overall_risk |-> "high", overall_risk_score |-> 80, issues |-> <<PromptIssue>>],
     [overall_risk |-> "high", overall_risk_score |-> 80, issues |-> <<SchemaIssue>>],
     [overall_risk |-> "extreme", overall_risk_score |-> 80, issues |-> <<>>],
     [overall_risk |-> "high", overall_risk_score |-> 250, issues |-> <<>>]}
\* the chunk the handler stops at
ModelChunks ==
    {[type |-> "error", data |-> NoResult]}
        \cup {[type |-> "analysis_complete", data |-> r] : r \in ModelResults}

IdleReq ==
    [pc |-> "idle", client_id |-> "", input |-> NoInput, contract_hash |-> "",
     cache_key |-> "", text_length |-> 0, analysis_result |-> NoResult,
     analysis_id |-> None, analysis_response |-> None,
     start |-> 0, lookup |-> 0, fresh |-> FALSE, get_ok |-> FALSE,
     model_calls |-> 0, stores |-> 0,
     \* the endpoint, what rate_limiter.is_allowed returned and the stages the
     \* handler went through before its first await on the cache or the model
     path |-> "", allowed |-> FALSE, stages |-> <<>>,
     \* of a stream: the chunks the provider has sent, the text accumulated,
     \* how the provider's stream went ("", "ended", "failed"), the text of
     \* the exception raised in the pipeline, the events the pipeline has
     \* produced and the frames sent to the client
     deltas |-> 0, full_response |-> <<>>, provider |-> "", raised |-> "",
     produced |-> <<>>, frames |-> <<>>]

EmptyDb == [contract_analyses |-> <<>>, contract_issues |-> <<>>]

\* the batch task before it is run: the contracts_data it is given, the
\* index of its loop and its locals completed, failed, results
IdleBatch ==
    [pc |-> "idle", contracts_data |-> <<>>, i |-> 0, completed |-> 0,
     failed |-> 0, results |-> <<>>,
     \* whether the soft time limit has been signalled, and the error the
     \* task ended with
     soft |-> FALSE, error |-> "",
     \* whether the record store answers while the task runs
     store_up |-> TRUE]

\* a single job before a worker picks it up: its kind ("single" for
\* analyze_contract_async, "reanalysis" for reanalyze_contract), the contract
\* it is about, its state in the result backend, the state updates made so
\* far, how often it was run, whether the soft time limit has been signalled
\* and the error it ended with
IdleJob ==
    [pc |-> "queued", kind |-> "single",
     contract |-> [fails |-> FALSE, issues |-> FALSE],
     state |-> "PENDING", reports |-> <<>>, runs |-> 0, soft |-> FALSE,
     error |-> "", store_up |-> TRUE]

\* the server at start: a key of another application, and one entry the
\* service left there just before, with set (default ttl) or with increment
KeyAtStart == "a"
OtherApplication ==
    [k \in {ForeignKey} |-> [val |-> [json |-> PyStr("x")], exp |-> NoExpiry]]
StoreAfterSet ==
    R_SETEX(OtherApplication, generate_key(KeyAtStart), default_ttl,
            json_dumps(PyStr("ok")), 0)
StoreAfterIncrement == R_INCRBY(OtherApplication, generate_key(KeyAtStart), 1)

CacheInitVars ==
    /\ redis_up \in BOOLEAN
    /\ redis_client = IF redis_up THEN "client" ELSE "none"
    /\ store \in {StoreAfterSet, StoreAfterIncrement}
    /\ tasks = [t \in Tasks |-> IdleTask]
    /\ ops = 0
    /\ last_step = Step("init")
    /\ written = [k \in CacheKeys |->
                     IF k = KeyAtStart /\ store = StoreAfterSet
                     THEN Write(0, default_ttl) ELSE NoWrite]
    /\ handlers = [t \in Tasks |-> IdleReq]
    /\ an_log = <<>>
    /\ events = 0
    /\ db = EmptyDb
    /\ batch = IdleBatch
    /\ job = IdleJob

(***************************************************************************)
(* Rate limiter on its own: any client may call at any time.               *)
(***************************************************************************)
RateInit ==
    /\ now = 0
    /\ ticks = 0
    /\ minute_requests = EmptyMap
    /\ hour_requests = EmptyMap
    /\ rl_log = [c \in Clients |-> <<>>]
    /\ CacheInitVars
    /\ redis_up
    /\ store = StoreAfterSet

RECURSIVE SumLen(_, _)
SumLen(f, S) ==
    IF S = {} THEN 0
    ELSE LET c == CHOOSE x \in S : TRUE IN Len(f[c]) + SumLen(f, S \ {c})

NumCalls == SumLen(rl_log, Clients)

\* the clock moves on by d seconds; the server drops the keys that have
\* expired by then
Advance(d) ==
    /\ now' = now + d
    /\ ticks' = ticks + 1
    /\ store' = ExpireKeys(store, now + d)
    /\ tasks' = Interfere(tasks, "env")
    /\ last_step' = Step("tick")
    /\ UNCHANGED <<redis_client, redis_up, ops, written>>
    /\ UNCHANGED rlVars
    /\ UNCHANGED anVars

\* time passes
Tick ==
    /\ ticks < MaxTicks
    /\ \E d \in Jumps : Advance(d)

\* a request of client c reaches rate_limiter.is_allowed(client_id)
IsAllowedCall ==
    /\ NumCalls < MaxCalls
    /\ \E c \in Clients :
        LET r == is_allowed(minute_requests, hour_requests, c, now) IN
        /\ minute_requests' = r.minute
        /\ hour_requests' = r.hour
        /\ rl_log' = [rl_log EXCEPT ![c] = Append(@, [time |-> now, ret |-> r.ret])]
    /\ UNCHANGED <<now, ticks>>
    /\ UNCHANGED cacheVars
    /\ UNCHANGED anVars

RateNext == Tick \/ IsAllowedCall

RateSpec == RateInit /\ [][RateNext]_vars

(***************************************************************************)
(* The cache on its own: two coroutines call the CacheManager, the clock   *)
(* moves, the server comes and goes.                                       *)
(***************************************************************************)
CacheInit ==
    /\ now = 0
    /\ ticks = 0
    /\ minute_requests = EmptyMap
    /\ hour_requests = EmptyMap
    /\ rl_log = [c \in Clients |-> <<>>]
    /\ CacheInitVars

Starts(t) == tasks[t].pc = "idle" /\ ops < MaxOps

\* an operation of one backend call: it starts and completes in this step
OneCall(t, rec, st, wr) ==
    /\ last_step' = rec
    /\ store' = st
    /\ written' = wr
    /\ tasks' = Interfere(tasks, t)
    /\ ops' = ops + 1
    /\ UNCHANGED <<now, ticks, redis_client, redis_up>>
    /\ UNCHANGED rlVars
    /\ UNCHANGED anVars

NoClient == redis_client = "none"

\* CacheManager.get
cache_get(st, key) ==
    IF NoClient THEN None
    ELSE LET value == R_GET(st, generate_key(key))
         IN  Catch(IF ~Reachable THEN Raised
                   ELSE IF value # Missing THEN json_loads(value) ELSE None,
                   None)

Get(t) ==
    /\ Starts(t)
    /\ \E k \in CacheKeys :
        OneCall(t, Done(t, "get", k, None, 0, cache_get(store, k),
                        NoClient, ~NoClient /\ ~Reachable),
                store, written)

\* CacheManager.delete
cache_delete(st, key) ==
    IF NoClient THEN PyBool(FALSE)
    ELSE Catch(IF ~Reachable THEN Raised
               ELSE PyBool(generate_key(key) \in DOMAIN st),
               PyBool(FALSE))

Delete(t) ==
    /\ Starts(t)
    /\ \E k \in CacheKeys :
        OneCall(t, Done(t, "delete", k, None, 0, cache_delete(store, k),
                        NoClient, ~NoClient /\ ~Reachable),
                IF Reachable THEN R_DEL(store, {generate_key(k)}) ELSE store,
                written)

\* CacheManager.exists
cache_exists(st, key) ==
    IF NoClient THEN PyBool(FALSE)
    ELSE Catch(IF ~Reachable THEN Raised
               ELSE PyBool(generate_key(key) \in DOMAIN st),
               PyBool(FALSE))

Exists(t) ==
    /\ Starts(t)
    /\ \E k \in CacheKeys :
        OneCall(t, Done(t, "exists", k, None, 0, cache_exists(store, k),
                        NoClient, ~NoClient /\ ~Reachable),
                store, written)

\* CacheManager.increment (amount = 1)
cache_increment(st, key, amount) ==
    IF NoClient THEN None
    ELSE LET ck == generate_key(key)
         IN  Catch(IF ~Reachable \/ ~R_INCRBY_OK(st, ck) THEN Raised
                   ELSE R_INCRBY(st, ck, amount)[ck].val.json,
                   None)

Increment(t) ==
    /\ Starts(t)
    /\ \E k \in CacheKeys :
        LET ck == generate_key(k)
            ok == Reachable /\ R_INCRBY_OK(store, ck)
        IN  OneCall(t, Done(t, "increment", k, None, 0, cache_increment(store, k, 1),
                            NoClient, ~NoClient /\ ~ok),
                    IF ok THEN R_INCRBY(store, ck, 1) ELSE store,
                    IF ok THEN Put(written, k, NoWrite) ELSE written)

\* CacheManager.expire
cache_expire(st, key, ttl) ==
    IF NoClient THEN PyBool(FALSE)
    ELSE Catch(IF ~Reachable THEN Raised
               ELSE PyBool(generate_key(key) \in DOMAIN st),
               PyBool(FALSE))

Expire(t) ==
    /\ Starts(t)
    /\ \E k \in CacheKeys, ttl \in ExpireArgs :
        LET ck == generate_key(k)
            hit == Reachable /\ ck \in DOMAIN store
        IN  OneCall(t, Done(t, "expire", k, None, ttl, cache_expire(store, k, ttl),
                            NoClient, ~NoClient /\ ~Reachable),
                    IF hit THEN R_EXPIRE(store, ck, ttl, now) ELSE store,
                    IF hit THEN Put(written, k, NoWrite) ELSE written)

\* a step in the middle of an operation of task t
Middle(t, task, st) ==
    /\ tasks' = Interfere([tasks EXCEPT ![t] = task], t)
    /\ store' = st
    /\ last_step' = Step("step")
    /\ UNCHANGED <<now, ticks, redis_client, redis_up, written>>
    /\ UNCHANGED rlVars

\* the step that completes a multi-step operation of task t
Complete(t, rec, st, wr) ==
    /\ tasks' = Interfere([tasks EXCEPT ![t] = IdleTask], t)
    /\ store' = st
    /\ last_step' = rec
    /\ written' = wr
    /\ UNCHANGED <<now, ticks, redis_client, redis_up>>
    /\ UNCHANGED rlVars

\* CacheManager.set(k, v, ttl), up to the answer of
\* `await self._check_size_limit()`
set_begin(t, k, v, ttl) ==
    IF NoClient
    THEN Complete(t, Done(t, "set", k, v, ttl, PyBool(FALSE), TRUE, FALSE),
                  store, written)
    ELSE LET keys == R_KEYS(store)
             full == Reachable /\ size_limit_reached(keys)
         IN  Middle(t, [IdleTask EXCEPT
                           !.pc = IF full THEN "evict_keys" ELSE "setex",
                           !.op = "set", !.key = k, !.val = v, !.ttl = ttl,
                           !.before = keys, !.atmax = full,
                           !.anyfail = ~Reachable],
                    store)

SetBegin(t) ==
    /\ Starts(t)
    /\ ops' = ops + 1
    /\ \E k \in CacheKeys, v \in CacheValues, ttl \in TtlArgs : set_begin(t, k, v, ttl)
    /\ UNCHANGED anVars

\* CacheManager._evict_oldest: `keys = await self.redis_client.keys(...)`
EvictKeys(t) ==
    /\ tasks[t].pc = "evict_keys"
    /\ UNCHANGED ops
    /\ UNCHANGED anVars
    /\ LET keys == R_KEYS(store) IN
       IF ~Reachable
       THEN Middle(t, [tasks[t] EXCEPT !.pc = "setex", !.anyfail = TRUE], store)
       ELSE IF keys = {}
       THEN Middle(t, [tasks[t] EXCEPT !.pc = "setex"], store)
       ELSE Middle(t, [tasks[t] EXCEPT !.pc = "evict_ttl", !.todo = keys,
                                       !.key_ttls = <<>>], store)

\* CacheManager._evict_oldest: one `ttl = await self.redis_client.ttl(key)`;
\* after the last one the list is sorted and cut
EvictTtl(t) ==
    /\ tasks[t].pc = "evict_ttl"
    /\ UNCHANGED ops
    /\ UNCHANGED anVars
    /\ \E k \in tasks[t].todo :
        LET ttl == R_TTL(store, k, now)
            kt == IF considered(ttl) THEN Append(tasks[t].key_ttls, <<k, ttl>>)
                  ELSE tasks[t].key_ttls
            rest == tasks[t].todo \ {k}
        IN  IF ~Reachable
            THEN Middle(t, [tasks[t] EXCEPT !.pc = "setex", !.anyfail = TRUE,
                                            !.todo = {}, !.key_ttls = <<>>], store)
            ELSE IF rest # {}
            THEN Middle(t, [tasks[t] EXCEPT !.todo = rest, !.key_ttls = kt], store)
            ELSE Middle(t, [tasks[t] EXCEPT
                               !.pc = IF Victims(kt) = <<>> THEN "setex" ELSE "evict_del",
                               !.todo = {}, !.key_ttls = <<>>,
                               !.cands = Len(kt), !.victims = Victims(kt)],
                        store)

\* CacheManager._evict_oldest: one `await self.redis_client.delete(key)`
EvictDel(t) ==
    /\ tasks[t].pc = "evict_del"
    /\ UNCHANGED ops
    /\ UNCHANGED anVars
    /\ LET k == Head(tasks[t].victims)
           rest == Tail(tasks[t].victims)
       IN  IF ~Reachable
           THEN Middle(t, [tasks[t] EXCEPT !.pc = "setex", !.anyfail = TRUE,
                                           !.victims = <<>>], store)
           ELSE Middle(t, [tasks[t] EXCEPT
                              !.pc = IF rest = <<>> THEN "setex" ELSE "evict_del",
                              !.victims = rest,
                              !.evicted = @ \cup ({k} \cap DOMAIN store)],
                       R_DEL(store, {k}))

\* CacheManager.set: `await self.redis_client.setex(cache_key, ttl, json.dumps(...))`
set_end(t) ==
    /\ tasks[t].pc = "setex"
    /\ UNCHANGED ops
    /\ LET task == tasks[t]
           eff == effective_ttl(task.ttl)
           ok == Reachable /\ eff > 0
           ret == Catch(IF ok THEN PyBool(TRUE) ELSE Raised, PyBool(FALSE))
       IN  Complete(t,
                    [Done(t, "set", task.key, task.val, task.ttl, ret, FALSE, ~ok)
                        EXCEPT !.anyfail = task.anyfail \/ ~ok,
                               !.solo = task.solo, !.atmax = task.atmax,
                               !.before = task.before, !.cands = task.cands,
                               !.evicted = task.evicted],
                    IF ok THEN R_SETEX(store, generate_key(task.key), eff,
                                       json_dumps(task.val), now)
                    ELSE store,
                    IF ok THEN Put(written, task.key, Write(now, eff))
                    ELSE written)

SetEx(t) ==
    /\ set_end(t)
    /\ UNCHANGED anVars

\* CacheManager.clear_all, up to the answer of `await self.redis_client.keys(...)`
ClearBegin(t) ==
    /\ Starts(t)
    /\ ops' = ops + 1
    /\ UNCHANGED anVars
    /\ LET keys == R_KEYS(store) IN
       IF NoClient
       THEN Complete(t, Done(t, "clear_all", "", None, 0, PyBool(FALSE), TRUE, FALSE),
                     store, written)
       ELSE IF ~Reachable
       THEN Complete(t, Done(t, "clear_all", "", None, 0,
                             Catch(Raised, PyBool(FALSE)), FALSE, TRUE),
                     store, written)
       ELSE IF keys = {}
       THEN Complete(t, Done(t, "clear_all", "", None, 0, PyBool(TRUE), FALSE, FALSE),
                     store, written)
       ELSE Middle(t, [IdleTask EXCEPT !.pc = "clear_del", !.op = "clear_all",
                                       !.todo = keys], store)

\* CacheManager.clear_all: `await self.redis_client.delete(*keys)`
ClearDel(t) ==
    /\ tasks[t].pc = "clear_del"
    /\ UNCHANGED ops
    /\ UNCHANGED anVars
    /\ Complete(t, Done(t, "clear_all", "", None, 0,
                        Catch(IF Reachable THEN PyBool(TRUE) ELSE Raised, PyBool(FALSE)),
                        FALSE, ~Reachable),
                IF Reachable THEN R_DEL(store, tasks[t].todo) ELSE store,
                written)

\* one second passes
Second ==
    /\ ticks < MaxSeconds
    /\ Advance(1)

\* the server becomes unreachable, or reachable again
Flip ==
    /\ ops < MaxOps
    /\ redis_up' = ~redis_up
    /\ ops' = ops + 1
    /\ tasks' = Interfere(tasks, "env")
    /\ last_step' = Step("env")
    /\ UNCHANGED <<now, ticks, redis_client, store, written>>
    /\ UNCHANGED rlVars
    /\ UNCHANGED anVars

\* CacheManager.connect, as the health check calls it: the client is kept
\* when the ping succeeds and dropped when it fails
Connect ==
    /\ ops < MaxOps
    /\ redis_client' = IF redis_up THEN "client" ELSE "none"
    /\ redis_client' # redis_client
    /\ ops' = ops + 1
    /\ tasks' = Interfere(tasks, "env")
    /\ last_step' = Step("env")
    /\ UNCHANGED <<now, ticks, redis_up, store, written>>
    /\ UNCHANGED rlVars
    /\ UNCHANGED anVars

CacheNext ==
    \/ \E t \in Tasks : Get(t)
    \/ \E t \in Tasks : Delete(t)
    \/ \E t \in Tasks : Exists(t)
    \/ \E t \in Tasks : Increment(t)
    \/ \E t \in Tasks : Expire(t)
    \/ \E t \in Tasks : SetBegin(t)
    \/ \E t \in Tasks : EvictKeys(t)
    \/ \E t \in Tasks : EvictTtl(t)
    \/ \E t \in Tasks : EvictDel(t)
    \/ \E t \in Tasks : SetEx(t)
    \/ \E t \in Tasks : ClearBegin(t)
    \/ \E t \in Tasks : ClearDel(t)
    \/ Second
    \/ Flip
    \/ Connect

CacheSpec == CacheInit /\ [][CacheNext]_vars

(***************************************************************************)
(* POST /analyze (app/api/v1/endpoints.py, analyze_contract): up to        *)
(* MaxRequests requests, two at a time, each a coroutine that gives way    *)
(* at its awaits.                                                          *)
(***************************************************************************)
MaxRequests == 2
\* the ttl the handler caches an analysis with
AnalysisTtl == 3600
\* how long the clock may move at once between requests
Waits == {1800}

\* f"{industry}"
FormatStr(v) == IF v.py = "None" THEN "None" ELSE v.s

\* cache_key = f"analysis:{contract_hash}:{industry}:{':'.join(analysis_type)}"
analysis_cache_key(contract_hash, industry, analysis_type) ==
    "analysis:" \o contract_hash \o ":" \o FormatStr(industry) \o ":"
        \o Join(analysis_type, ":")

\* str(e) of an exception of the extraction library and of the model
\* provider's client
ExtractionError == "PdfReadError: EOF marker not found"
ProviderError == "APIConnectionError: Connection error."
InternalErrors == {ExtractionError, ProviderError}

\* DocumentService.process_document: the HTTP error it raises, or the text
\* and the hash of the bytes
process_document(file) ==
    IF ~file.size_ok
    THEN [status |-> 413, detail |-> <<"File size exceeds maximum allowed size">>,
          text |-> <<>>, hash |-> ""]
    ELSE IF ~file.supported
    THEN [status |-> 400, detail |-> <<"Unsupported file type">>,
          text |-> <<>>, hash |-> ""]
    ELSE IF ~file.readable
    THEN [status |-> 500,
          detail |-> <<"Failed to process document: ",
                       "Failed to extract text from PDF: ", ExtractionError>>,
          text |-> <<>>, hash |-> ""]
    ELSE [status |-> 200, detail |-> <<>>, text |-> file.text,
          hash |-> sha256(file.content)]

RiskLevels == {"low", "medium", "high", "critical"}
MaxScore == 100

\* mutant: only the issues are validated
Validates_issues_only(result) ==
    \A i \in 1..Len(result.issues) : result.issues[i] = SchemaIssue

\* whether ContractAnalysis(...) accepts the result (pydantic validation)
Validates(result) ==
    /\ result.overall_risk \in RiskLevels
    /\ result.overall_risk_score \in 0..MaxScore
    /\ \A i \in 1..Len(result.issues) : result.issues[i] = SchemaIssue

\* the fields of ContractAnalysis kept here, in the order of the class:
\* analysis_id, contract_hash, total_issues, overall_risk_score, risk_level,
\* issues, analysis_metadata (industry, analysis_types, text_length),
\* created_at
ContractAnalysis(analysis_id, contract_hash, result, industry, analysis_type, text_length, created_at) ==
    PyDict(<<analysis_id,
             PyStr(contract_hash),
             PyInt(Len(result.issues)),
             Py("float", result.overall_risk_score, ""),
             PyEnum(result.overall_risk),
             PyList([i \in 1..Len(result.issues) |->
                        PyDict(<<PyStr(result.issues[i].fields)>>)]),
             PyDict(<<industry,
                      PyList([i \in 1..Len(analysis_type) |-> PyStr(analysis_type[i])]),
                      PyInt(text_length)>>),
             PyDatetime(created_at)>>)
RiskLevelField == 5
CreatedAtField == 8

\* mutant: what the handler returns goes out as it is
response_model_raw(value) == value

\* response_model=ContractAnalysis: what the handler returns is read into
\* the model before it goes out, so the text of a risk level is the enum
\* member again and the text of a datetime the datetime
response_model(value) ==
    IF value.py # "dict" \/ Len(value.items) < CreatedAtField THEN value
    ELSE LET risk == value.items[RiskLevelField]
             created == value.items[CreatedAtField]
         IN  [value EXCEPT
                 !.items[RiskLevelField] =
                     IF risk.py = "str" /\ risk.s \in RiskLevels
                     THEN PyEnum(risk.s) ELSE risk,
                 !.items[CreatedAtField] =
                     IF created.py = "str" /\ created.s = "datetime"
                     THEN PyDatetime(created.n) ELSE created]

Active == {t \in Tasks : handlers[t].pc # "idle"}
\* the slots are taken in order: a request gets the first free one
Before(u, r) == u = "t1" /\ r = "t2"

\* the ttl of the last set of user key k has not elapsed
Fresh(k) == k \in DOMAIN written /\ written[k].set /\ now < written[k].due

\* log_response(response, duration, logger) reads response.status_code and
\* response.headers: what it raises, "" when it returns
log_response(response) ==
    IF response = None THEN "AttributeError" ELSE ""

\* mutant: log_response copes with a missing response
log_response_guarded(response) == ""

\* what general_exception_handler answers to an exception that no other
\* handler takes
UnexpectedError == PyText(<<"An unexpected error occurred">>)

\* mutant: the handler of /analyze has no finally clause
handler_exit_plain(path, status, body) ==
    [status |-> status, body |-> body]

\* how a handler is left when its try statement returned body or raised
\* HTTPException(status, body).  analyze_contract has the clause
\* `finally: ... log_response(None, duration, logger)`; an exception raised
\* there replaces the return value or the exception under way, and the
\* application answers it with general_exception_handler.
\* analyze_contract_stream has no finally clause.
handler_exit(path, status, body) ==
    IF path = "/analyze" /\ log_response(None) # ""
    THEN [status |-> 500, body |-> UnexpectedError]
    ELSE [status |-> status, body |-> body]

\* the request in slot r, whose locals are h, is answered: status and body
\* are what the try statement of the handler returned or raised
Answer(r, h, status, body, hit, cached, stamp) ==
    /\ an_log' = Append(an_log,
          [client_id |-> h.client_id, input |-> h.input,
           contract_hash |-> h.contract_hash, cache_key |-> h.cache_key,
           status |-> handler_exit(h.path, status, body).status,
           body |-> handler_exit(h.path, status, body).body,
           try_status |-> status, try_body |-> body,
           hit |-> hit, cached |-> cached,
           model_calls |-> h.model_calls, stores |-> h.stores,
           start |-> h.start, lookup |-> h.lookup, fresh |-> h.fresh,
           get_ok |-> h.get_ok, end |-> stamp, result |-> h.analysis_result,
           full_response |-> h.full_response, provider |-> h.provider,
           raised |-> h.raised, produced |-> h.produced, frames |-> h.frames,
           path |-> h.path, allowed |-> h.allowed, stages |-> h.stages,
           others |-> Cardinality(Active \ {r})])
    /\ handlers' = [handlers EXCEPT ![r] = IdleReq]
    /\ events' = stamp

\* the request in slot r goes on with locals h
GoOn(r, h) ==
    /\ handlers' = [handlers EXCEPT ![r] = h]
    /\ UNCHANGED an_log

\* how the head of a handler ends: the status and detail of the
\* HTTPException it raises (status 0: none, the handler goes on) and the
\* stages it went through
Outcome(status, detail, stages) ==
    [status |-> status, detail |-> detail, stages |-> stages]

\* `if file_upload: ... else: ...`: the document is processed, validated and
\* sanitized, or the text is sanitized
extraction(input, stages) ==
    LET text == input.contract_text
        file == input.file_upload
        doc == process_document(file)
        done == Append(stages, "extract")
    IN  IF file.present /\ doc.status # 200
        THEN Outcome(doc.status, doc.detail, done)
        ELSE IF file.present /\ ~validate_document_content(doc.text)
        THEN Outcome(400, <<"Invalid document content. Please ensure this is a valid contract.">>, done)
        ELSE IF ~file.present /\ sanitize_input(text) = <<>>
        THEN Outcome(400, <<"Invalid contract text provided">>, done)
        ELSE Outcome(0, <<>>, done)

\* mutant: the input is looked at before the rate limiter's answer
admission_validating_first(allowed, input) ==
    IF input.contract_text = <<>> /\ ~input.file_upload.present
    THEN Outcome(400, <<"Either contract_text or file_upload must be provided">>,
                 <<"validate">>)
    ELSE IF ~allowed
    THEN Outcome(429, <<"Rate limit exceeded. Please try again later.">>,
                 <<"validate", "rate_limit">>)
    ELSE extraction(input, <<"validate", "rate_limit">>)

\* the head of analyze_contract and of analyze_contract_stream, the same in
\* both: the rate limiter's answer, the check that there is an input, the
\* extraction
admission(allowed, input) ==
    IF ~allowed
    THEN Outcome(429, <<"Rate limit exceeded. Please try again later.">>,
                 <<"rate_limit">>)
    ELSE IF input.contract_text = <<>> /\ ~input.file_upload.present
    THEN Outcome(400, <<"Either contract_text or file_upload must be provided">>,
                 <<"rate_limit", "validate">>)
    ELSE extraction(input, <<"rate_limit", "validate">>)

\* a request, one of those of the menu, arrives: the handler runs up to
\* `await cache.get(cache_key)`
AnStartWith(r, menu) ==
    /\ handlers[r].pc = "idle"
    /\ \A u \in Tasks : handlers[u].pc = "idle" => ~Before(u, r)
    /\ Len(an_log) + Cardinality(Active) < MaxRequests
    /\ \E c \in Clients, input \in menu :
        LET text == input.contract_text
            file == input.file_upload
            industry == input.industry
            types == input.analysis_type
            adm == is_allowed(minute_requests, hour_requests, c, now)
            head == admission(adm.ret, input)
            h == [IdleReq EXCEPT !.client_id = c, !.start = events + 1,
                                 !.input = input, !.path = "/analyze",
                                 !.allowed = adm.ret, !.stages = head.stages]
            doc == process_document(file)
            sanitized == sanitize_input(text)
            extracted_text == IF file.present THEN sanitize_text(doc.text)
                              ELSE sanitized
            contract_hash == IF file.present THEN doc.hash
                             ELSE sha256(Str(sanitized))
            Refuse(status, detail) ==
                Answer(r, h, status, PyText(detail), FALSE, FALSE, events + 2)
        IN  /\ minute_requests' = adm.minute
            /\ hour_requests' = adm.hour
            /\ UNCHANGED rl_log
            /\ IF head.status # 0
               THEN Refuse(head.status, head.detail)
               ELSE /\ GoOn(r, [h EXCEPT
                                  !.pc = "cache_get",
                                  !.contract_hash = contract_hash,
                                  !.cache_key = analysis_cache_key(contract_hash, industry, types),
                                  !.text_length = Len(Str(extracted_text))])
                    /\ events' = events + 1
    /\ UNCHANGED <<now, ticks, db, batch, job>>
    /\ UNCHANGED cacheVars

\* a request arrives at POST /analyze
AnStart(r) == AnStartWith(r, Inputs)

\* `cached_analysis = await cache.get(cache_key)`, and the return on a hit
AnCacheGet(r) ==
    /\ handlers[r].pc = "cache_get"
    /\ LET h == [handlers[r] EXCEPT !.lookup = events,
                                    !.fresh = Fresh(handlers[r].cache_key),
                                    !.get_ok = Reachable]
           cached_analysis == cache_get(store, h.cache_key)
       IN  IF Truthy(cached_analysis)
           THEN Answer(r, h, 200, response_model(cached_analysis), TRUE, FALSE,
                       events + 1)
           ELSE GoOn(r, [h EXCEPT !.pc = "model"]) /\ UNCHANGED events
    /\ UNCHANGED <<now, ticks, db, batch, job>>
    /\ UNCHANGED rlVars
    /\ UNCHANGED cacheVars

\* mutant: one computation per cache key at a time; a request that finds
\* another one computing for its key is turned away
AnModel_single_flight(r) ==
    /\ handlers[r].pc = "model"
    /\ \E chunk \in ModelChunks :
        LET busy == \E u \in Tasks \ {r} :
                        /\ handlers[u].cache_key = handlers[r].cache_key
                        /\ handlers[u].pc \in {"store_analysis", "store_issues",
                                               "cache_set", "cache_set_wait"}
            h == [handlers[r] EXCEPT !.model_calls = IF busy THEN @ ELSE @ + 1]
            analysis_id == Py("str", h.start, "uuid4")
        IN  IF busy \/ chunk.type = "error"
            THEN Answer(r, h, 500,
                        PyText(<<"Analysis failed: ", "Streaming failed: ", ProviderError>>),
                        FALSE, FALSE, events + 1)
            ELSE IF ~Validates(chunk.data)
            THEN Answer(r, h, 500, PyText(<<"Internal server error during contract analysis">>),
                        FALSE, FALSE, events + 1)
            ELSE /\ GoOn(r, [h EXCEPT
                               !.pc = "store_analysis",
                               !.analysis_result = chunk.data,
                               !.analysis_id = analysis_id,
                               !.analysis_response =
                                   ContractAnalysis(analysis_id, h.contract_hash,
                                       chunk.data, h.input.industry,
                                       h.input.analysis_type, h.text_length, now)])
                 /\ UNCHANGED events
    /\ UNCHANGED <<now, ticks, db, batch, job>>
    /\ UNCHANGED rlVars
    /\ UNCHANGED cacheVars

\* `async for chunk in openai_service.analyze_contract(...)` up to the chunk
\* that ends it, and the construction of the response
AnModel(r) ==
    /\ handlers[r].pc = "model"
    /\ \E chunk \in ModelChunks :
        LET h == [handlers[r] EXCEPT !.model_calls = @ + 1]
            analysis_id == Py("str", h.start, "uuid4")
        IN  IF chunk.type = "error"
            THEN Answer(r, h, 500,
                        PyText(<<"Analysis failed: ", "Streaming failed: ", ProviderError>>),
                        FALSE, FALSE, events + 1)
            ELSE IF ~Validates(chunk.data)
            THEN Answer(r, h, 500, PyText(<<"Internal server error during contract analysis">>),
                        FALSE, FALSE, events + 1)
            ELSE /\ GoOn(r, [h EXCEPT
                               !.pc = "store_analysis",
                               !.analysis_result = chunk.data,
                               !.analysis_id = analysis_id,
                               !.analysis_response =
                                   ContractAnalysis(analysis_id, h.contract_hash,
                                       chunk.data, h.input.industry,
                                       h.input.analysis_type, h.text_length, now)])
                 /\ UNCHANGED events
    /\ UNCHANGED <<now, ticks, db, batch, job>>
    /\ UNCHANGED rlVars
    /\ UNCHANGED cacheVars

\* SupabaseService.store_analysis: the row inserted, with the id the
\* database gives it
analysis_record(id, analysis_data, contract_hash) ==
    [id |-> id, contract_hash |-> contract_hash,
     overall_risk_score |-> analysis_data.overall_risk_score,
     overall_risk_level |-> analysis_data.overall_risk]

\* mutant: a failure of store_analysis is not caught by the handler's inner
\* try and ends the request with the generic 500
AnStoreAnalysis_raising(r) ==
    /\ handlers[r].pc = "store_analysis"
    /\ \E inserted \in BOOLEAN :
        LET h == handlers[r]
            row == analysis_record(Py("str", Len(db.contract_analyses) + 1, "row"),
                                   h.analysis_result, h.contract_hash)
        IN  IF inserted
            THEN /\ db' = [db EXCEPT !.contract_analyses = Append(@, row)]
                 /\ GoOn(r, [h EXCEPT !.stores = @ + 1,
                                      !.pc = IF h.analysis_result.issues # <<>>
                                             THEN "store_issues" ELSE "cache_set"])
                 /\ UNCHANGED events
            ELSE /\ UNCHANGED db
                 /\ Answer(r, h, 500,
                           PyText(<<"Internal server error during contract analysis">>),
                           FALSE, FALSE, events + 1)
    /\ UNCHANGED <<now, ticks, batch, job>>
    /\ UNCHANGED rlVars
    /\ UNCHANGED cacheVars

\* `await supabase_service.store_analysis(analysis_result, contract_hash)`:
\* the database makes the id of the row; a failure is logged and the handler
\* goes on to the cache
AnStoreAnalysis(r) ==
    /\ handlers[r].pc = "store_analysis"
    /\ \E inserted \in BOOLEAN :
        LET h == handlers[r]
            row == analysis_record(Py("str", Len(db.contract_analyses) + 1, "row"),
                                   h.analysis_result, h.contract_hash)
        IN  IF inserted
            THEN /\ db' = [db EXCEPT !.contract_analyses = Append(@, row)]
                 /\ GoOn(r, [h EXCEPT !.stores = @ + 1,
                                      !.pc = IF h.analysis_result.issues # <<>>
                                             THEN "store_issues" ELSE "cache_set"])
            ELSE /\ UNCHANGED db
                 /\ GoOn(r, [h EXCEPT !.pc = "cache_set"])
    /\ UNCHANGED <<now, ticks, events, batch, job>>
    /\ UNCHANGED rlVars
    /\ UNCHANGED cacheVars

\* `await supabase_service.store_issues(analysis_id, analysis_result["issues"])`
AnStoreIssues(r) ==
    /\ handlers[r].pc = "store_issues"
    /\ \E inserted \in BOOLEAN :
        LET h == handlers[r]
            rows == [i \in 1..Len(h.analysis_result.issues) |->
                        [analysis_id |-> h.analysis_id]]
        IN  /\ db' = IF inserted
                     THEN [db EXCEPT !.contract_issues = @ \o rows] ELSE db
            /\ GoOn(r, [h EXCEPT !.pc = "cache_set",
                                 !.stores = IF inserted THEN @ + 1 ELSE @])
    /\ UNCHANGED <<now, ticks, events, batch, job>>
    /\ UNCHANGED rlVars
    /\ UNCHANGED cacheVars

\* `await cache.set(cache_key, analysis_response.dict(), 3600)` up to its
\* first await; without a client set returns at once and so does the handler
AnCacheSet(r) ==
    /\ handlers[r].pc = "cache_set"
    /\ LET h == handlers[r] IN
        /\ set_begin(r, h.cache_key, h.analysis_response, AnalysisTtl)
        /\ IF NoClient
           THEN Answer(r, h, 200, h.analysis_response, FALSE, FALSE, events + 1)
           ELSE GoOn(r, [h EXCEPT !.pc = "cache_set_wait"]) /\ UNCHANGED events
    /\ UNCHANGED <<ops, db, batch, job>>

\* the SETEX of that set, and `return analysis_response`
AnSetEx(r) ==
    /\ handlers[r].pc = "cache_set_wait"
    /\ set_end(r)
    /\ Answer(r, handlers[r], 200, handlers[r].analysis_response, FALSE,
              last_step'.ret = PyBool(TRUE), events + 1)
    /\ UNCHANGED <<db, batch, job>>

\* time passes between requests (a request takes far less than a wait)
Elapse ==
    /\ ticks < MaxSeconds
    /\ Active = {}
    /\ \E d \in Waits : Advance(d)

\* one client has used up all but one of its requests of this minute; the
\* cache is there for the whole run, or not at all
AnalyzeInit ==
    /\ now = 0
    /\ ticks = 0
    /\ minute_requests = [c \in {"c1"} |-> [i \in 1..(requests_per_minute - 1) |-> 0]]
    /\ hour_requests = minute_requests
    /\ rl_log = [c \in Clients |-> <<>>]
    /\ CacheInitVars
    /\ store = StoreAfterSet

AnalyzeNext ==
    \/ \E r \in Tasks : AnStart(r)
    \/ \E r \in Tasks : AnCacheGet(r)
    \/ \E r \in Tasks : AnModel(r)
    \/ \E r \in Tasks : AnStoreAnalysis(r)
    \/ \E r \in Tasks : AnStoreIssues(r)
    \/ \E r \in Tasks : AnCacheSet(r)
    \/ \E r \in Tasks : EvictKeys(r)
    \/ \E r \in Tasks : EvictTtl(r)
    \/ \E r \in Tasks : EvictDel(r)
    \/ \E r \in Tasks : AnSetEx(r)
    \/ Elapse

AnalyzeSpec == AnalyzeInit /\ [][AnalyzeNext]_vars

(***************************************************************************)
(* POST /analyze, one request after the other, with every kind of input:   *)
(* what a request is answered with.                                        *)
(***************************************************************************)
\* uploads: of a type that is not supported, one whose text cannot be
\* extracted, one with too little text, one with text enough but a single
\* contract term
OddFile == [GoodFile EXCEPT !.supported = FALSE, !.content = "png-1", !.text = <<>>]
BrokenFile == [GoodFile EXCEPT !.readable = FALSE, !.content = "pdf-3", !.text = <<>>]
ShortFile ==
    [GoodFile EXCEPT !.content = "pdf-4",
                     !.text = <<"contract", " ", "terms">>]
PlainFile ==
    [GoodFile EXCEPT !.content = "pdf-5",
                     !.text = <<"contract", " ",
                                "lorem ipsum dolor sit amet consectetur adipiscing elit">>]

DefaultTypes == <<"legal", "financial", "compliance">>
TextInput(text) == [NoInput EXCEPT !.contract_text = text, !.analysis_type = DefaultTypes]
FileInput(file) == [NoInput EXCEPT !.file_upload = file, !.analysis_type = DefaultTypes]

\* the requests that are sent: nothing, a short text, a text that is nothing
\* once sanitized, each upload, and a text together with an upload
AllInputs ==
    {NoInput, TextInput(<<"nda", "<">>), TextInput(<<" ", "<", ">">>)}
        \cup {FileInput(f) : f \in {GoodFile, BigFile, OddFile, BrokenFile,
                                     ShortFile, PlainFile}}
        \cup {[TextInput(<<"nda", "<">>) EXCEPT !.file_upload = GoodFile]}

\* a request arrives when no other is in progress
Intake(r) ==
    /\ Active = {}
    /\ AnStartWith(r, AllInputs)

\* one client has used up its requests of this minute, the other none
IntakeInit ==
    /\ now = 0
    /\ ticks = 0
    /\ minute_requests = [c \in {"c1"} |-> [i \in 1..requests_per_minute |-> 0]]
    /\ hour_requests = minute_requests
    /\ rl_log = [c \in Clients |-> <<>>]
    /\ CacheInitVars
    /\ store = StoreAfterSet

IntakeNext ==
    \/ \E r \in Tasks : Intake(r)
    \/ \E r \in Tasks : AnCacheGet(r)
    \/ \E r \in Tasks : AnModel(r)
    \/ \E r \in Tasks : AnStoreAnalysis(r)
    \/ \E r \in Tasks : AnStoreIssues(r)
    \/ \E r \in Tasks : AnCacheSet(r)
    \/ \E r \in Tasks : EvictKeys(r)
    \/ \E r \in Tasks : EvictTtl(r)
    \/ \E r \in Tasks : EvictDel(r)
    \/ \E r \in Tasks : AnSetEx(r)

IntakeSpec == IntakeInit /\ [][IntakeNext]_vars

(***************************************************************************)
(* POST /analyze/stream (analyze_contract_stream): the relay               *)
(* generate_stream pulls the events of OpenAIService.analyze_contract and  *)
(* sends each to the client as one frame.                                  *)
(***************************************************************************)
MaxStreams == 2
\* how many chunks the provider sends at most
MaxDeltas == 3
\* what a chunk of the provider holds: a brace, the members of the JSON
\* object the prompt asks for, or nothing
Members == "\"overall_risk\": \"high\", \"overall_risk_score\": 80"
DeltaContents == {"{", "}", Members, ""}

StreamInputs == {NoInput, TextInput(<<"nda", "<">>)}

\* an event of the pipeline: type, data, timestamp, is_final
Chunk(type, data, is_final) ==
    PyDict(<<PyStr(type), data, Py("float", now, ""), PyBool(is_final)>>)
TypeField == 1
DataField == 2
IsFinalField == 4

\* mutant: the error event is not marked final
error_chunk_not_final(prefix, e) ==
    Chunk("error", PyDict(<<PyText(<<prefix, e>>)>>), FALSE)
\* mutant: the error event has a fixed message
error_chunk_generic(prefix, e) ==
    Chunk("error", PyDict(<<PyText(<<prefix>>)>>), TRUE)

\* {"type": "error", "data": {"message": f"{prefix}{str(e)}"}, ..., "is_final": True}
error_chunk(prefix, e) ==
    Chunk("error", PyDict(<<PyText(<<prefix, e>>)>>), TRUE)

\* {"type": "progress", "data": {"content": ..., "full_response": ...}, ..., "is_final": False}
progress_chunk(content, full_response) ==
    Chunk("progress", PyDict(<<PyStr(content), PyText(full_response)>>), FALSE)

\* the first and the last position of a piece in a text, 0 when there is none
FirstIndex(text, piece) ==
    IF \E i \in 1..Len(text) : text[i] = piece
    THEN CHOOSE i \in 1..Len(text) :
            text[i] = piece /\ \A j \in 1..(i - 1) : text[j] # piece
    ELSE 0
LastIndex(text, piece) ==
    IF \E i \in 1..Len(text) : text[i] = piece
    THEN CHOOSE i \in 1..Len(text) :
            text[i] = piece /\ \A j \in (i + 1)..Len(text) : text[j] # piece
    ELSE 0

\* json.loads of a text made of braces and members: the object it denotes,
\* or JSONDecodeError
ParseObject(text) ==
    IF text = <<"{", "}">> THEN [ok |-> TRUE, members |-> FALSE]
    ELSE IF text = <<"{", Members, "}">> THEN [ok |-> TRUE, members |-> TRUE]
    ELSE [ok |-> FALSE, members |-> FALSE]

\* the data of analysis_complete: overall_risk, overall_risk_score, issues,
\* recommendations, summary, raw_response
AnalysisData(risk, score, recommendations, summary, response) ==
    PyDict(<<PyStr(risk), PyInt(score), PyList(<<>>),
             PyList([i \in 1..Len(recommendations) |-> PyStr(recommendations[i])]),
             PyStr(summary), PyText(response)>>)
\* the fallback of _process_analysis_response
Degraded(response) ==
    AnalysisData("medium", 50,
                 <<"Review the contract manually for detailed analysis">>,
                 "AI analysis completed but response parsing failed", response)
\* what it returns for an object with the members asked for, and for one
\* without (the defaults of .get)
Parsed(response, members) ==
    IF members
    THEN AnalysisData("high", 80, <<>>, "Analysis completed", response)
    ELSE AnalysisData("medium", 50, <<>>, "Analysis completed", response)

NoJSONFound == "No JSON found in response"

\* OpenAIService._process_analysis_response: the ValueError it raises is not
\* a JSONDecodeError and leaves the method
process_analysis_response(response) ==
    LET json_start == FirstIndex(response, "{")
        json_end == LastIndex(response, "}")
        json_str == SubSeq(response, json_start, json_end)
        analysis_data == ParseObject(json_str)
    IN  IF json_start = 0 \/ json_end = 0
        THEN [raised |-> NoJSONFound, data |-> None]
        ELSE IF analysis_data.ok
        THEN [raised |-> "", data |-> Parsed(response, analysis_data.members)]
        ELSE [raised |-> "", data |-> Degraded(response)]

\* whether json.dumps(value), without a default, can encode the value
RECURSIVE Serializable(_)
Serializable(value) ==
    IF value.py \in {"list", "dict"}
    THEN \A i \in 1..Len(value.items) : Serializable(value.items[i])
    ELSE value.py \in JSONNative \cup {"enum"}

\* f"data: {json.dumps(chunk)}\n\n"
sse_frame(chunk) == <<"data: ", json_dumps(chunk), "\n\n">>

\* mutant: the relay sends only the final events
relay_finals_only(h, chunk) ==
    [h EXCEPT !.produced = Append(@, chunk),
              !.frames = IF chunk.items[IsFinalField] = PyBool(TRUE)
                         THEN Append(@, sse_frame(chunk)) ELSE @]

\* generate_stream, for one event of the pipeline: the frame it yields, or
\* the frame of the error event it makes when json.dumps raises
relay(h, chunk) ==
    [h EXCEPT !.produced = Append(@, chunk),
              !.frames =
                  IF Serializable(chunk) THEN Append(@, sse_frame(chunk))
                  ELSE Append(@, sse_frame(error_chunk("", "TypeError: not JSON serializable")))]

Streaming == {t \in Tasks : handlers[t].pc \in {"st_open", "st_streaming"}}

\* a request arrives at POST /analyze/stream: the handler runs up to the
\* return of the StreamingResponse
StStart(r) ==
    /\ handlers[r].pc = "idle"
    /\ \A u \in Tasks : handlers[u].pc = "idle" => ~Before(u, r)
    /\ Len(an_log) + Cardinality(Active) < MaxStreams
    /\ \E c \in Clients, input \in StreamInputs :
        LET text == input.contract_text
            file == input.file_upload
            adm == is_allowed(minute_requests, hour_requests, c, now)
            head == admission(adm.ret, input)
            h == [IdleReq EXCEPT !.client_id = c, !.start = events + 1,
                                 !.input = input, !.path = "/analyze/stream",
                                 !.allowed = adm.ret, !.stages = head.stages]
            doc == process_document(file)
            sanitized == sanitize_input(text)
            extracted_text == IF file.present THEN sanitize_text(doc.text)
                              ELSE sanitized
            Refuse(status, detail) ==
                Answer(r, h, status, PyText(detail), FALSE, FALSE, events + 2)
        IN  /\ minute_requests' = adm.minute
            /\ hour_requests' = adm.hour
            /\ UNCHANGED rl_log
            /\ IF head.status # 0
               THEN Refuse(head.status, head.detail)
               ELSE /\ GoOn(r, [h EXCEPT !.pc = "st_open",
                                         !.text_length = Len(Str(extracted_text))])
                    /\ events' = events + 1
    /\ UNCHANGED <<now, ticks, db, batch, job>>
    /\ UNCHANGED cacheVars

\* the stream of the request in slot r, whose locals are h, is over
StClose(r, h) == Answer(r, h, 200, None, FALSE, FALSE, events + 1)

\* the cache key POST /analyze makes for an input that passes its checks
KeyOfInput(input) ==
    analysis_cache_key(IF input.file_upload.present
                       THEN process_document(input.file_upload).hash
                       ELSE sha256(Str(sanitize_input(input.contract_text))),
                       input.industry, input.analysis_type)

\* mutant: the stream is served from the cache when it holds a record
StCreate_cached(r) ==
    /\ handlers[r].pc = "st_open"
    /\ LET h == handlers[r]
           cached == cache_get(store, KeyOfInput(h.input))
       IN  IF Truthy(cached)
           THEN StClose(r, relay(h, Chunk("analysis_complete", cached, TRUE)))
           ELSE /\ GoOn(r, [h EXCEPT !.pc = "st_streaming", !.model_calls = @ + 1])
                /\ UNCHANGED events
    /\ UNCHANGED <<now, ticks, db, batch, job>>
    /\ UNCHANGED rlVars
    /\ UNCHANGED cacheVars

\* the first pull of the relay: the pipeline builds the prompt and awaits
\* client.chat.completions.create, which returns the provider's stream or
\* raises
StCreate(r) ==
    /\ handlers[r].pc = "st_open"
    /\ \E created \in BOOLEAN :
        LET h == [handlers[r] EXCEPT !.model_calls = @ + 1] IN
        IF created
        THEN GoOn(r, [h EXCEPT !.pc = "st_streaming"]) /\ UNCHANGED events
        ELSE StClose(r, relay([h EXCEPT !.provider = "failed",
                                        !.raised = ProviderError],
                              error_chunk("Streaming failed: ", ProviderError)))
    /\ UNCHANGED <<now, ticks, db, batch, job>>
    /\ UNCHANGED rlVars
    /\ UNCHANGED cacheVars

\* the provider sends a chunk: one without content is passed over, one with
\* content is added to full_response and makes a progress event
StDelta(r) ==
    /\ handlers[r].pc = "st_streaming"
    /\ handlers[r].deltas < MaxDeltas
    /\ \E content \in DeltaContents :
        LET h == [handlers[r] EXCEPT !.deltas = @ + 1]
            full_response == Append(h.full_response, content)
        IN  IF content = "" THEN GoOn(r, h)
            ELSE GoOn(r, relay([h EXCEPT !.full_response = full_response],
                               progress_chunk(content, full_response)))
    /\ UNCHANGED <<now, ticks, db, events, batch, job>>
    /\ UNCHANGED rlVars
    /\ UNCHANGED cacheVars

\* the provider's stream raises
StBreak(r) ==
    /\ handlers[r].pc = "st_streaming"
    /\ StClose(r, relay([handlers[r] EXCEPT !.provider = "failed",
                                            !.raised = ProviderError],
                        error_chunk("Streaming failed: ", ProviderError)))
    /\ UNCHANGED <<now, ticks, db, batch, job>>
    /\ UNCHANGED rlVars
    /\ UNCHANGED cacheVars

\* the provider's stream ends: the pipeline processes the response and
\* yields its last event
StEnd(r) ==
    /\ handlers[r].pc = "st_streaming"
    /\ LET h == [handlers[r] EXCEPT !.provider = "ended"]
           analysis_result == process_analysis_response(h.full_response)
       IN  IF analysis_result.raised # ""
           THEN StClose(r, relay([h EXCEPT !.raised = analysis_result.raised],
                                 error_chunk("Streaming failed: ", analysis_result.raised)))
           ELSE StClose(r, relay(h, Chunk("analysis_complete", analysis_result.data, TRUE)))
    /\ UNCHANGED <<now, ticks, db, batch, job>>
    /\ UNCHANGED rlVars
    /\ UNCHANGED cacheVars

StreamInit == IntakeInit

StreamNext ==
    \/ \E r \in Tasks : StStart(r)
    \/ \E r \in Tasks : StCreate(r)
    \/ \E r \in Tasks : StDelta(r)
    \/ \E r \in Tasks : StBreak(r)
    \/ \E r \in Tasks : StEnd(r)

StreamSpec == StreamInit /\ [][StreamNext]_vars

\* one stream on its own, from its request to its end
StStartOnce(r) ==
    /\ an_log = <<>>
    /\ Active = {}
    /\ StStart(r)

RelayNext ==
    \/ \E r \in Tasks : StStartOnce(r)
    \/ \E r \in Tasks : StCreate(r)
    \/ \E r \in Tasks : StDelta(r)
    \/ \E r \in Tasks : StBreak(r)
    \/ \E r \in Tasks : StEnd(r)

\* the client keeps reading and the provider's stream ends or fails, so a
\* stream that can take a step takes one
RelaySpec == StreamInit /\ [][RelayNext]_vars /\ WF_vars(RelayNext)

(***************************************************************************)
(* Both endpoints together: requests for the same contract arrive at       *)
(* POST /analyze, one at a time, and at POST /analyze/stream.              *)
(***************************************************************************)
\* the requests sent to POST /analyze: those sent to the stream, and one for
\* another contract
BothInputs == StreamInputs \cup {TextInput(<<"lease">>)}

\* a request arrives at POST /analyze when no other request is in progress
AnStartAlone(r) ==
    /\ Active = {}
    /\ AnStartWith(r, BothInputs)

BothInit == IntakeInit

BothNext ==
    \/ \E r \in Tasks : AnStartAlone(r)
    \/ \E r \in Tasks : AnCacheGet(r)
    \/ \E r \in Tasks : AnModel(r)
    \/ \E r \in Tasks : AnStoreAnalysis(r)
    \/ \E r \in Tasks : AnStoreIssues(r)
    \/ \E r \in Tasks : AnCacheSet(r)
    \/ \E r \in Tasks : EvictKeys(r)
    \/ \E r \in Tasks : EvictTtl(r)
    \/ \E r \in Tasks : EvictDel(r)
    \/ \E r \in Tasks : AnSetEx(r)
    \/ \E r \in Tasks : StStart(r)
    \/ \E r \in Tasks : StCreate(r)
    \/ \E r \in Tasks : StDelta(r)
    \/ \E r \in Tasks : StBreak(r)
    \/ \E r \in Tasks : StEnd(r)

BothSpec == BothInit /\ [][BothNext]_vars

(***************************************************************************)
(* POST /analyze with the form fields industry and analysis_type as the    *)
(* caller chooses them: both are free strings (endpoints.py 41-42), and    *)
(* the cache key joins them with ":" (endpoints.py 100).                   *)
(***************************************************************************)
WithParams(text, industry, types) ==
    [NoInput EXCEPT !.contract_text = text, !.industry = industry,
                    !.analysis_type = types]

\* one text with no industry and with the industry "None", with an industry
\* and two types split at each of the two colons, and a second text
ParamInputs ==
    {WithParams(<<"nda">>, None, <<"legal">>),
     WithParams(<<"nda">>, PyStr("None"), <<"legal">>),
     WithParams(<<"nda">>, PyStr("tech"), <<"legal", "financial">>),
     WithParams(<<"nda">>, PyStr("tech:legal"), <<"financial">>),
     WithParams(<<"nda">>, PyStr("tech"), <<"legal:financial">>),
     WithParams(<<"lease">>, None, <<"legal">>)}

AnStartParams(r) ==
    /\ Active = {}
    /\ AnStartWith(r, ParamInputs)

KeyInit == IntakeInit

KeyNext ==
    \/ \E r \in Tasks : AnStartParams(r)
    \/ \E r \in Tasks : AnCacheGet(r)
    \/ \E r \in Tasks : AnModel(r)
    \/ \E r \in Tasks : AnStoreAnalysis(r)
    \/ \E r \in Tasks : AnStoreIssues(r)
    \/ \E r \in Tasks : AnCacheSet(r)
    \/ \E r \in Tasks : EvictKeys(r)
    \/ \E r \in Tasks : EvictTtl(r)
    \/ \E r \in Tasks : EvictDel(r)
    \/ \E r \in Tasks : AnSetEx(r)

KeySpec == KeyInit /\ [][KeyNext]_vars

(***************************************************************************)
(* batch_analyze_contracts (app/tasks/analysis_tasks.py): a Celery task,   *)
(* an ordinary function that goes through contracts_data in a for loop.    *)
(***************************************************************************)
\* how many items a batch has at most
MaxBatch == 3
\* an item of contracts_data, by what the model does when asked about it:
\* whether the invocation fails, and whether the result has issues
ItemKinds == [fails : BOOLEAN, issues : BOOLEAN]
Batches == UNION {[1..n -> ItemKinds] : n \in 0..MaxBatch}

\* openai_service.analyze_contract(...): the function is an `async def`
\* with yield, so the call returns an async generator; events are what it
\* would produce
analyze_contract(item) ==
    [kind |-> "async_generator",
     events |-> IF item.fails
                THEN <<[type |-> "error", data |-> NoResult]>>
                ELSE <<[type |-> "progress", data |-> NoResult],
                       [type |-> "analysis_complete",
                        data |-> [overall_risk |-> "high", overall_risk_score |-> 80,
                                  issues |-> IF item.issues THEN <<PromptIssue>>
                                             ELSE <<>>]]>>]

NotIterable == "'async_generator' object is not iterable"

\* the for statement: it asks the object for an iterator, which an async
\* generator does not have (TypeError); of a generator it takes the items
sync_for(generator) ==
    IF generator.kind = "async_generator"
    THEN [raised |-> NotIterable, chunks |-> <<>>]
    ELSE [raised |-> "", chunks |-> generator.events]

\* the data of the first analysis_complete among the chunks, or None
RECURSIVE first_complete(_)
first_complete(chunks) ==
    IF chunks = <<>> THEN NoResult
    ELSE IF Head(chunks).type = "analysis_complete" THEN Head(chunks).data
    ELSE first_complete(Tail(chunks))

\* `analysis_id = supabase_service.store_analysis(...)`, `supabase_service.
\* store_issues(...)` and `cache.set(...)` in a task: the functions are
\* `async def` and are called without await, so each call makes a coroutine
\* object and runs nothing of the function: nothing is stored and nothing
\* is raised, whether the record store answers or not
store_results(store_up) == [raised |-> "", stored |-> FALSE]

\* mutant: an exception raised for an item ends the task
item_failed_aborting(b, i, e) ==
    [b EXCEPT !.i = Len(b.contracts_data), !.pc = "failed", !.error = e]

\* mutant: a failed item is recorded and not counted
item_failed_uncounted(b, i, e) ==
    [b EXCEPT !.i = i,
              !.results = Append(@, [contract_id |-> i, status |-> "failed",
                                     error |-> e, result |-> NoResult])]

\* `except Exception as e:` of the loop body: the item is counted and
\* recorded as failed with str(e)
item_failed(b, i, e) ==
    [b EXCEPT !.i = i, !.failed = @ + 1,
              !.results = Append(@, [contract_id |-> i, status |-> "failed",
                                     error |-> e, result |-> NoResult])]

\* the body of the loop for the item at index i (counted from 1 here):
\* the locals after it
batch_iteration(b, i) ==
    LET contract_data == b.contracts_data[i]
        loop == sync_for(analyze_contract(contract_data))
        analysis_result == first_complete(loop.chunks)
    IN  IF loop.raised # ""
        THEN item_failed(b, i, loop.raised)
        ELSE IF analysis_result # NoResult /\ store_results(b.store_up).raised # ""
        THEN item_failed(b, i, store_results(b.store_up).raised)
        ELSE IF analysis_result # NoResult
        THEN [b EXCEPT !.i = i, !.completed = @ + 1,
                       !.results = Append(@, [contract_id |-> i, status |-> "completed",
                                              error |-> "",
                                              result |-> analysis_result])]
        ELSE [b EXCEPT !.i = i, !.failed = @ + 1,
                       !.results = Append(@, [contract_id |-> i, status |-> "failed",
                                              error |-> "Analysis failed to complete",
                                              result |-> NoResult])]

\* the task is run with its contracts_data
BatchStart ==
    /\ batch.pc = "idle"
    /\ \E contracts_data \in Batches, store_up \in BOOLEAN :
        batch' = [IdleBatch EXCEPT !.pc = "loop", !.contracts_data = contracts_data,
                                   !.store_up = store_up]
    /\ UNCHANGED <<now, ticks, handlers, an_log, events, db, job>>
    /\ UNCHANGED rlVars
    /\ UNCHANGED cacheVars

\* one pass of `for i, contract_data in enumerate(contracts_data)`
BatchItem ==
    /\ batch.pc = "loop"
    /\ batch.i < Len(batch.contracts_data)
    /\ batch' = batch_iteration(batch, batch.i + 1)
    /\ UNCHANGED <<now, ticks, handlers, an_log, events, db, job>>
    /\ UNCHANGED rlVars
    /\ UNCHANGED cacheVars

\* the loop is over: the task returns total, completed, failed and results
BatchReturn ==
    /\ batch.pc = "loop"
    /\ batch.i = Len(batch.contracts_data)
    /\ batch' = [batch EXCEPT !.pc = "done"]
    /\ UNCHANGED <<now, ticks, handlers, an_log, events, db, job>>
    /\ UNCHANGED rlVars
    /\ UNCHANGED cacheVars

BatchInit == IntakeInit

BatchNext == BatchStart \/ BatchItem \/ BatchReturn

BatchSpec == BatchInit /\ [][BatchNext]_vars

(***************************************************************************)
(* The worker (app/celery_app.py, app/tasks/analysis_tasks.py): a single   *)
(* job and a batch job run in worker processes under the time limits of    *)
(* the configuration.  When task_soft_time_limit has elapsed the worker    *)
(* raises SoftTimeLimitExceeded, an Exception, inside the task; when       *)
(* task_time_limit has elapsed it kills the process that runs the task.    *)
(* The limits are met while a task waits in the code it is busy with: for  *)
(* a batch, the body of its loop or the handler of an item's exception.    *)
(***************************************************************************)
\* str(e) of the two exceptions
SoftTimeLimitExceeded == "SoftTimeLimitExceeded()"
TimeLimitExceeded == "TimeLimitExceeded(1800)"
TimeLimits == {SoftTimeLimitExceeded, TimeLimitExceeded}

JobKinds == {"single", "reanalysis"}
\* how many times a job may be run at most
MaxRuns == 2

\* current_task.update_state(state=..., meta={... "progress": progress}),
\* or meta={"error": error}
Report(state, progress, error) ==
    [state |-> state, progress |-> progress, error |-> error]

\* mutant: the first update reports the job as all but done
starting_update_late == Report("PROGRESS", 95, "")

\* update_state(state="PROGRESS", meta={"status": "Starting ...", "progress": 0})
starting_update == Report("PROGRESS", 0, "")

Min(a, b) == IF a <= b THEN a ELSE b

\* the loop over the chunks of analyze_contract_async and of
\* reanalyze_contract: the result, the local progress, the updates made and
\* the exception raised (reanalyze_contract has no branch for an error chunk)
RECURSIVE consume(_, _, _, _)
consume(kind, chunks, progress, reports) ==
    IF chunks = <<>>
    THEN [analysis_result |-> NoResult, progress |-> progress,
          reports |-> reports, raised |-> ""]
    ELSE IF Head(chunks).type = "analysis_complete"
    THEN [analysis_result |-> Head(chunks).data, progress |-> 100,
          reports |-> reports, raised |-> ""]
    ELSE IF Head(chunks).type = "progress"
    THEN consume(kind, Tail(chunks), Min(90, progress + 10),
                 Append(reports, Report("PROGRESS", Min(90, progress + 10), "")))
    ELSE IF Head(chunks).type = "error" /\ kind = "single"
    THEN [analysis_result |-> NoResult, progress |-> progress,
          reports |-> reports,
          raised |-> "Analysis failed: Streaming failed: " \o ProviderError]
    ELSE consume(kind, Tail(chunks), progress, reports)

\* supabase_service.get_analysis(analysis_id) without await: the coroutine
\* object, which is truthy and has no method get
NoAttributeGet == "'coroutine' object has no attribute 'get'"

\* the task from its loop on, to its return or to the exception that leaves
\* its try block: the updates made, the exception and what is returned
task_body(kind, contract, store_up) ==
    IF kind = "reanalysis"
    THEN [reports |-> <<>>, raised |-> NoAttributeGet, progress |-> 0]
    ELSE LET loop == sync_for(analyze_contract(contract))
             run == consume(kind, loop.chunks, 0, <<>>)
         IN  IF loop.raised # ""
             THEN [reports |-> <<>>, raised |-> loop.raised, progress |-> 0]
             ELSE IF run.raised # ""
             THEN [reports |-> run.reports, raised |-> run.raised,
                   progress |-> run.progress]
             ELSE IF run.analysis_result = NoResult
             THEN [reports |-> run.reports, raised |-> "Analysis failed to complete",
                   progress |-> run.progress]
             ELSE [reports |-> Append(run.reports, Report("PROGRESS", 95, "")),
                   raised |-> store_results(store_up).raised, progress |-> 100]

\* `except Exception as e:` of a task: update_state(state="FAILURE",
\* meta={"error": str(e)}) and `raise`, after which the worker stores the
\* failure
task_failed(j, reports, e) ==
    [j EXCEPT !.pc = "failed", !.state = "FAILURE", !.error = e,
              !.reports = @ \o reports \o <<Report("FAILURE", 0, e)>>]

JobFrame ==
    /\ UNCHANGED <<now, ticks, handlers, an_log, events, db>>
    /\ UNCHANGED rlVars
    /\ UNCHANGED cacheVars

\* mutant: a failed job is run again
JobStart_retrying ==
    /\ job.pc \in {"queued", "failed"}
    /\ job.runs < MaxRuns
    /\ \E kind \in JobKinds, contract \in ItemKinds, store_up \in BOOLEAN :
        job' = [IdleJob EXCEPT !.pc = "running", !.kind = kind,
                               !.contract = contract, !.state = "PROGRESS",
                               !.store_up = store_up,
                               !.runs = job.runs + 1,
                               !.reports = Append(job.reports, starting_update)]
    /\ UNCHANGED batch
    /\ JobFrame

\* a worker picks the job up and runs the task up to its loop
JobStart ==
    /\ job.pc = "queued"
    /\ job.runs < MaxRuns
    /\ \E kind \in JobKinds, contract \in ItemKinds, store_up \in BOOLEAN :
        job' = [IdleJob EXCEPT !.pc = "running", !.kind = kind,
                               !.contract = contract, !.state = "PROGRESS",
                               !.store_up = store_up,
                               !.runs = job.runs + 1,
                               !.reports = Append(job.reports, starting_update)]
    /\ UNCHANGED batch
    /\ JobFrame

\* the rest of the task
JobRun ==
    /\ job.pc = "running"
    /\ LET body == task_body(job.kind, job.contract, job.store_up)
       IN  job' = IF body.raised # ""
                  THEN task_failed(job, body.reports, body.raised)
                  ELSE [job EXCEPT !.pc = "succeeded", !.state = "SUCCESS",
                                   !.reports = @ \o body.reports
                                       \o <<Report("SUCCESS", body.progress, "")>>]
    /\ UNCHANGED batch
    /\ JobFrame

\* the soft time limit is met while the job runs: SoftTimeLimitExceeded is
\* raised in its try block
JobSoftTimeout ==
    /\ job.pc = "running"
    /\ job' = task_failed([job EXCEPT !.soft = TRUE], <<>>, SoftTimeLimitExceeded)
    /\ UNCHANGED batch
    /\ JobFrame

\* the soft time limit is met while the batch is in its loop: in the try
\* block of an item, whose `except Exception` takes SoftTimeLimitExceeded
\* for a failure of the item, or in that handler, from which it reaches
\* the `except Exception` of the task
BatchSoftTimeout ==
    /\ batch.pc = "loop"
    /\ batch.i < Len(batch.contracts_data)
    /\ ~batch.soft
    /\ \E at \in {"try", "handler", "appended"} :
        LET b == [batch EXCEPT !.soft = TRUE]
            i == batch.i + 1
        IN  batch' =
              IF at = "try" THEN item_failed(b, i, SoftTimeLimitExceeded)
              ELSE IF at = "handler"
              THEN [b EXCEPT !.i = i, !.failed = @ + 1, !.pc = "failed",
                             !.error = SoftTimeLimitExceeded]
              ELSE [item_failed(b, i, sync_for(analyze_contract(b.contracts_data[i])).raised)
                       EXCEPT !.pc = "failed", !.error = SoftTimeLimitExceeded]
    /\ UNCHANGED job
    /\ JobFrame

\* the time limit is met, after the soft one, while the batch still runs
BatchHardTimeout ==
    /\ batch.pc = "loop"
    /\ batch.soft
    /\ batch' = [batch EXCEPT !.pc = "failed", !.error = TimeLimitExceeded]
    /\ UNCHANGED job
    /\ JobFrame

WorkerInit == IntakeInit

WorkerNext ==
    \/ JobStart
    \/ JobRun
    \/ JobSoftTimeout
    \/ BatchStart
    \/ BatchItem
    \/ BatchReturn
    \/ BatchSoftTimeout
    \/ BatchHardTimeout

WorkerSpec == WorkerInit /\ [][WorkerNext]_vars

(***************************************************************************)
(* The application object (main.py).  Middleware classes are registered    *)
(* with add_middleware, which puts each in front of the list; the stack is *)
(* built on the first call of the application by instantiating each class  *)
(* with the application it wraps, `cls(app, **options)`.  A call of the    *)
(* application whose stack cannot be built raises before any route is      *)
(* looked up, and the stack is built again on the next call.               *)
(***************************************************************************)
\* the classes given to app.add_middleware, in the order of the calls
added_middleware(debug) ==
    <<"MetricsMiddleware", "CORSMiddleware">>
        \o (IF debug THEN <<>> ELSE <<"TrustedHostMiddleware">>)

\* whether the class can be instantiated with the application it wraps:
\* MetricsMiddleware defines no __init__, so it takes no arguments
takes_app(cls) == cls # "MetricsMiddleware"

NoArguments(cls) == cls \o "() takes no arguments"

\* Starlette's build_middleware_stack over the registered classes, the one
\* registered first being instantiated first (it is the innermost): the
\* TypeError of the first class that cannot be instantiated, or "" when the
\* stack is built
RECURSIVE build_middleware_stack(_)
build_middleware_stack(classes) ==
    IF classes = <<>> THEN ""
    ELSE IF takes_app(Head(classes))
    THEN build_middleware_stack(Tail(classes))
    ELSE NoArguments(Head(classes))

\* basic_health: the body of GET /health
basic_health(time) ==
    [status |-> "healthy", timestamp |-> time, version |-> "1.0.0"]

\* one GET of the application: the answer of the route when the stack is
\* built, the server's 500 when the call of the application raises
app_get(path, debug, time) ==
    LET raised == build_middleware_stack(added_middleware(debug))
    IN  IF raised # ""
        THEN [status_code |-> 500, body |-> [status |-> "error"], raised |-> raised]
        ELSE IF path = "/health"
        THEN [status_code |-> 200, body |-> basic_health(time), raised |-> ""]
        ELSE [status_code |-> 404, body |-> [status |-> "error"], raised |-> ""]

Paths == {"/health", "/nowhere"}

\* a GET arrives, in any state of the cache, the record store and the
\* model provider
AppGet ==
    /\ Len(an_log) < MaxRequests
    /\ \E path \in Paths, debug \in BOOLEAN, supabase_up \in BOOLEAN,
          openai_up \in BOOLEAN :
         an_log' = Append(an_log,
            [path |-> path, debug |-> debug, redis_up |-> redis_up,
             redis_client |-> redis_client, supabase_up |-> supabase_up,
             openai_up |-> openai_up,
             response |-> app_get(path, debug, now)])
    /\ UNCHANGED <<now, ticks, handlers, events, db, batch, job>>
    /\ UNCHANGED rlVars
    /\ UNCHANGED cacheVars

HealthInit == CacheInit

HealthNext == AppGet \/ Second \/ Flip \/ Connect

HealthSpec == HealthInit /\ [][HealthNext]_vars

(***************************************************************************)
(* The eviction sweep on a large cache.  CacheManager._evict_oldest runs   *)
(* alone, from its KEYS to its last DEL, on a store of up to MaxEntries    *)
(* namespaced entries, some with a ttl (written by set, or given one by    *)
(* expire) and some without (created by increment, which checks no size).  *)
(***************************************************************************)
MaxEntries == 21

RECURSIVE EntryName(_)
EntryName(i) == IF i = 0 THEN "" ELSE "k" \o EntryName(i - 1)

Entry(i) == generate_key(EntryName(i))

TtlSteps == {1, 7}
TtlSpans == {3, 23}

\* a store of n namespaced entries, c of them with a ttl (the first c or the
\* last c), beside the key of another application that expires first
LargeStore(n, c, first, step, span) ==
    [k \in {Entry(i) : i \in 1..n} \cup {ForeignKey} |->
        IF k = ForeignKey THEN [val |-> json_dumps(PyStr("x")), exp |-> 1]
        ELSE LET i == CHOOSE j \in 1..n : Entry(j) = k
                 bears == IF first THEN i <= c ELSE i > n - c
             IN  IF bears
                 THEN [val |-> json_dumps(PyStr("ok")),
                       exp |-> 1 + ((step * i) % span)]
                 ELSE [val |-> [json |-> PyInt(1)], exp |-> NoExpiry]]

\* the list that KEYS returns: the server gives no order, the sweep goes
\* through the list as it comes
RECURSIVE KeyList(_, _, _)
KeyList(st, i, backwards) ==
    IF i = 0 THEN <<>>
    ELSE LET rest == KeyList(st, i - 1, backwards)
         IN  IF Entry(i) \notin R_KEYS(st) THEN rest
             ELSE IF backwards THEN <<Entry(i)>> \o rest
             ELSE Append(rest, Entry(i))

\* `for key in keys: ttl = await self.redis_client.ttl(key); if ttl > 0:
\* key_ttls.append((key, ttl))`
RECURSIVE read_ttls(_, _, _)
read_ttls(st, keys, t) ==
    IF keys = <<>> THEN <<>>
    ELSE LET ttl == R_TTL(st, Head(keys), t)
         IN  (IF considered(ttl) THEN << <<Head(keys), ttl>> >> ELSE <<>>)
                 \o read_ttls(st, Tail(keys), t)

\* CacheManager._evict_oldest run alone on the store st at time t, the keys
\* coming in the given order: what it enumerated, how many candidates it
\* kept, what it deleted and the store it leaves
evict_oldest(st, keys, t) ==
    LET key_ttls == read_ttls(st, keys, t)
        victims == Victims(key_ttls)
        deleted == {victims[i] : i \in 1..Len(victims)}
    IN  [before |-> {keys[i] : i \in 1..Len(keys)},
         cands |-> Len(key_ttls),
         evicted |-> deleted,
         store |-> R_DEL(st, deleted)]

\* a set finds the cache at its size limit and sweeps it (the SETEX that
\* follows is not part of the sweep)
Sweep ==
    /\ ops < MaxOps
    /\ Reachable
    /\ size_limit_reached(R_KEYS(store))
    /\ \E backwards \in BOOLEAN :
        LET swept == evict_oldest(store, KeyList(store, MaxEntries, backwards), now)
        IN  /\ store' = swept.store
            /\ last_step' = [Step("sweep") EXCEPT !.op = "evict",
                                                  !.before = swept.before,
                                                  !.cands = swept.cands,
                                                  !.evicted = swept.evicted]
    /\ ops' = ops + 1
    /\ UNCHANGED <<now, ticks, redis_client, redis_up, tasks, written>>
    /\ UNCHANGED rlVars
    /\ UNCHANGED anVars

SweepInit ==
    /\ now = 0
    /\ ticks = 0
    /\ minute_requests = EmptyMap
    /\ hour_requests = EmptyMap
    /\ rl_log = [c \in Clients |-> <<>>]
    /\ redis_up = TRUE
    /\ redis_client = "client"
    /\ \E n \in 0..MaxEntries :
         \E c \in 0..n, first \in BOOLEAN, step \in TtlSteps, span \in TtlSpans :
            store = LargeStore(n, c, first, step, span)
    /\ tasks = [t \in Tasks |-> IdleTask]
    /\ ops = 0
    /\ last_step = Step("init")
    /\ written = [k \in CacheKeys |-> NoWrite]
    /\ handlers = [t \in Tasks |-> IdleReq]
    /\ an_log = <<>>
    /\ events = 0
    /\ db = EmptyDb
    /\ batch = IdleBatch
    /\ job = IdleJob

SweepNext == Sweep \/ Second

SweepSpec == SweepInit /\ [][SweepNext]_vars

(***************************************************************************)
(* sanitize_input on its own: raw texts put together from the pieces the   *)
(* denylist is about.                                                      *)
(***************************************************************************)
\* how many pieces a raw text has at most
MaxPieces == 4
Pieces == {"<", "&", "java", "script:", "da", "ta:", " ", "nda"}
RawTexts == UNION {[1..n -> Pieces] : n \in 0..MaxPieces}

\* a call of sanitize_input before it is made
Pending(text) == [input |-> text, output |-> <<>>, returned |-> FALSE]

\* sanitize_input(text) is called and returns
SanitizeCall ==
    /\ Len(an_log) = 1
    /\ ~an_log[1].returned
    /\ an_log' = <<[an_log[1] EXCEPT !.output = sanitize_input(an_log[1].input),
                                     !.returned = TRUE]>>
    /\ UNCHANGED <<now, ticks, handlers, events, db, batch, job>>
    /\ UNCHANGED rlVars
    /\ UNCHANGED cacheVars

SanitizeInit ==
    /\ now = 0
    /\ ticks = 0
    /\ minute_requests = EmptyMap
    /\ hour_requests = EmptyMap
    /\ rl_log = [c \in Clients |-> <<>>]
    /\ redis_up = TRUE
    /\ redis_client = "client"
    /\ store = OtherApplication
    /\ tasks = [t \in Tasks |-> IdleTask]
    /\ ops = 0
    /\ last_step = Step("init")
    /\ written = [k \in CacheKeys |-> NoWrite]
    /\ handlers = [t \in Tasks |-> IdleReq]
    /\ \E text \in RawTexts : an_log = <<Pending(text)>>
    /\ events = 0
    /\ db = EmptyDb
    /\ batch = IdleBatch
    /\ job = IdleJob

SanitizeNext == SanitizeCall

SanitizeSpec == SanitizeInit /\ [][SanitizeNext]_vars

(***************************************************************************)
(* Properties of the rate limiter                                          *)
(***************************************************************************)
Stamps(requests, c) == IF c \in DOMAIN requests THEN requests[c] ELSE <<>>
Range(s) == {s[i] : i \in 1..Len(s)}
Called(c) == Len(rl_log[c]) > 0
LastCall(c) == rl_log[c][Len(rl_log[c])]

\* the calls of c, up to and including its i-th, that lie in the window of
\* length w ending at the i-th call
CallsIn(c, i, w) ==
    {j \in 1..i : rl_log[c][j].time > rl_log[c][i].time - w}
\* the admitted calls of c before its i-th that lie in that window
AdmittedBefore(c, i, w) ==
    {j \in 1..(i - 1) :
        rl_log[c][j].ret /\ rl_log[c][j].time > rl_log[c][i].time - w}
WithinMinuteLimit(c) ==
    \A i \in 1..Len(rl_log[c]) :
        Cardinality(CallsIn(c, i, MinuteWindow)) <= requests_per_minute
WithinHourLimit(c) ==
    \A i \in 1..Len(rl_log[c]) :
        Cardinality(CallsIn(c, i, HourWindow)) <= requests_per_hour
AllAdmitted(c) == \A i \in 1..Len(rl_log[c]) : rl_log[c][i].ret

\* C1 as stated: a client that stays within the per-minute limit in every
\* rolling 60 s window is always admitted, and the (limit+1)-th request in a
\* window is rejected.
C1_AsStated ==
    \A c \in Clients :
        /\ WithinMinuteLimit(c) => AllAdmitted(c)
        /\ \A i \in 1..Len(rl_log[c]) :
              Cardinality(CallsIn(c, i, MinuteWindow)) = requests_per_minute + 1
                  => ~rl_log[c][i].ret

\* C1 amended: a client that stays within the per-minute limit in every
\* rolling 60 s window and within the per-hour limit in every rolling 3600 s
\* window is always admitted; a request made while per-minute-limit admitted
\* requests of the client lie in the trailing 60 s is rejected.
C1_MinuteAndHourLimit ==
    \A c \in Clients :
        /\ (WithinMinuteLimit(c) /\ WithinHourLimit(c)) => AllAdmitted(c)
        /\ \A i \in 1..Len(rl_log[c]) :
              Cardinality(AdmittedBefore(c, i, MinuteWindow)) >= requests_per_minute
                  => ~rl_log[c][i].ret

\* C1 witness: a client whose first per-minute-limit calls, all in one
\* window, were admitted and whose next call in that window was rejected.
C1_Witness ==
    \E c \in Clients :
        /\ Len(rl_log[c]) = requests_per_minute + 1
        /\ \A i \in 1..requests_per_minute : rl_log[c][i].ret
        /\ ~LastCall(c).ret
        /\ Cardinality(CallsIn(c, Len(rl_log[c]), MinuteWindow))
               = requests_per_minute + 1

AdmittedWithin(c, w) ==
    Cardinality({i \in 1..Len(rl_log[c]) :
                    rl_log[c][i].ret /\ rl_log[c][i].time > now - w})

\* C2: whatever the order of the is_allowed calls of the concurrent requests,
\* the admitted requests of one client in the trailing 60 s never exceed the
\* per-minute limit, and those in the trailing 3600 s never exceed the
\* per-hour limit.
C2_AdmittedWithinLimits ==
    \A c \in Clients :
        /\ AdmittedWithin(c, MinuteWindow) <= requests_per_minute
        /\ AdmittedWithin(c, HourWindow) <= requests_per_hour

\* C2 witness: both limits are reached, by calls of two clients interleaved.
C2_Witness ==
    /\ \E c \in Clients : AdmittedWithin(c, HourWindow) = requests_per_hour
    /\ \E c \in Clients : AdmittedWithin(c, MinuteWindow) = requests_per_minute
    /\ \A c \in Clients : Called(c)

\* the call that this step makes, if any
CallBy(c) == rl_log'[c] # rl_log[c]
Rejected(c) == CallBy(c) /\ ~rl_log'[c][Len(rl_log'[c])].ret

\* C3: a rejecting is_allowed call records no timestamp: for every client,
\* neither window list grows and each holds only timestamps it held before.
C3_RejectRecordsNothing ==
    [][\A c \in Clients : Rejected(c) =>
          \A d \in Clients :
              /\ Len(Stamps(minute_requests', d)) <= Len(Stamps(minute_requests, d))
              /\ Len(Stamps(hour_requests', d)) <= Len(Stamps(hour_requests, d))
              /\ Range(Stamps(minute_requests', d)) \subseteq Range(Stamps(minute_requests, d))
              /\ Range(Stamps(hour_requests', d)) \subseteq Range(Stamps(hour_requests, d))
      ]_vars

\* C3 witness: a call was rejected by the hour limit while the minute window
\* had room (the minute dictionary was touched before the rejection).
C3_Witness ==
    \E c \in Clients :
        /\ Called(c) /\ ~LastCall(c).ret /\ LastCall(c).time = now
        /\ Len(Stamps(hour_requests, c)) >= requests_per_hour
        /\ Len(Stamps(minute_requests, c)) < requests_per_minute

\* c made its last call more than 3600 s ago
Idle(c) == Called(c) /\ now - LastCall(c).time > HourWindow

\* C4: once a client has been idle for more than 3600 s, the next is_allowed
\* call of any client leaves none of its old timestamps; when the caller is
\* another client the idle client is in neither window map afterwards.
C4_IdleClientPurged ==
    [][\A d \in Clients : CallBy(d) =>
          \A c \in Clients : Idle(c) =>
              /\ Range(Stamps(minute_requests', c)) \subseteq {now}
              /\ Range(Stamps(hour_requests', c)) \subseteq {now}
              /\ c # d => /\ c \notin DOMAIN minute_requests'
                          /\ c \notin DOMAIN hour_requests'
      ]_vars

\* C4 witness: a client that was admitted, then idle for more than 3600 s,
\* is in neither map after the call of another client.
C4_Witness ==
    \E c, d \in Clients :
        /\ c # d /\ Called(c) /\ Called(d)
        /\ \E i \in 1..Len(rl_log[c]) : rl_log[c][i].ret
        /\ LastCall(d).time - LastCall(c).time > HourWindow
        /\ c \notin DOMAIN minute_requests
        /\ c \notin DOMAIN hour_requests

(***************************************************************************)
(* Properties of the cache                                                 *)
(***************************************************************************)
SetDone(s) == s.kind = "done" /\ s.op = "set"
GetDone(s) == s.kind = "done" /\ s.op = "get"
\* the operation had a client and its own backend call was answered
Answered(s) == ~s.noclient /\ ~s.ownfail
LiveEntries == R_KEYS(store)

\* a set that returned True is directly followed by a get of the same key
\* that the backend answers
SetThenGet ==
    /\ SetDone(last_step)
    /\ last_step.ret = PyBool(TRUE)
    /\ GetDone(last_step')
    /\ last_step'.key = last_step.key
    /\ Answered(last_step')

\* the ttl in effect of the last set of the key read has elapsed and nothing
\* has written to the key since, and the read returned None
ExpiredIsAbsent ==
    (/\ GetDone(last_step)
     /\ Answered(last_step)
     /\ written[last_step.key].set
     /\ now >= written[last_step.key].due)
        => last_step.ret = None

\* what a value looks like after it has been through JSON text
AsJSON(v) == IF v.py \in JSONNative THEN v ELSE Py("str", v.n, v.py)

\* C5 as stated: set(k, v, ttl) followed immediately by get(k) returns v, for
\* every value v; once the ttl has elapsed with no further write to k, get(k)
\* returns None.
C5_AsStated ==
    [][/\ SetThenGet => last_step'.ret = last_step.val
       /\ ExpiredIsAbsent']_vars

\* C5 amended: set(k, v, ttl) that returned True, followed immediately by
\* get(k), returns v as it reads after a JSON round trip (v itself when v is
\* JSON-native, str(v) otherwise); once the ttl in effect (ttl, or the
\* default when ttl is None or 0) has elapsed with no further write to k,
\* get(k) returns None.
C5_SetThenGetRoundTrip ==
    [][/\ SetThenGet => last_step'.ret = AsJSON(last_step.val)
       /\ ExpiredIsAbsent']_vars

\* C5 witness: a get, answered by the backend within the ttl of the last set
\* of its key, returns the text of a value that is not JSON-native.
C5_Witness ==
    /\ GetDone(last_step)
    /\ Answered(last_step)
    /\ written[last_step.key].set
    /\ now < written[last_step.key].due
    /\ last_step.ret = AsJSON(PyDatetime(5))
    /\ last_step.ret # PyDatetime(5)

\* a set that ran alone, with every backend call answered, found the cache at
\* its maximum and returned True
SetAtMax(s) ==
    /\ SetDone(s)
    /\ s.ret = PyBool(TRUE)
    /\ s.atmax
    /\ s.solo
    /\ ~s.anyfail

\* C6 as stated: when the number of live entries equals the maximum, one more
\* set evicts at least one entry before writing, the count after the set is
\* lower than before it, and the entry written is present.
C6_AsStated ==
    (SetAtMax(last_step) /\ Cardinality(last_step.before) = max_size)
        => /\ last_step.evicted # {}
           /\ Cardinality(LiveEntries) < Cardinality(last_step.before)
           /\ generate_key(last_step.key) \in LiveEntries

\* C6 amended: when the number of live entries is at least the maximum, one
\* more set first evicts max(1, n div 10) of the n entries that carry a
\* positive ttl, so that the count after the set is not higher than before
\* it; when no entry carries a ttl it evicts nothing and the count grows by
\* the entry written if that is new.  Either way the entry written is present
\* after the set.
C6_EvictsBeforeWriting ==
    SetAtMax(last_step)
        => /\ generate_key(last_step.key) \in LiveEntries
           /\ last_step.cands >= 1
                => /\ last_step.evicted # {}
                   /\ Cardinality(last_step.evicted)
                          = Max(1, last_step.cands \div EvictDivisor)
                   /\ last_step.evicted \subseteq last_step.before
                   /\ last_step.evicted \cap LiveEntries
                          \subseteq {generate_key(last_step.key)}
                   /\ Cardinality(LiveEntries) <= Cardinality(last_step.before)
           /\ last_step.cands = 0
                => /\ last_step.evicted = {}
                   /\ LiveEntries = last_step.before \cup {generate_key(last_step.key)}

\* C6 witness: a set that found the cache at its maximum with two ttl-bearing
\* entries, evicted one of them and wrote a new key.
C6_Witness ==
    /\ SetAtMax(last_step)
    /\ Cardinality(last_step.before) = max_size
    /\ last_step.cands = max_size
    /\ Cardinality(last_step.evicted) = 1
    /\ generate_key(last_step.key) \notin last_step.before
    /\ generate_key(last_step.key) \in LiveEntries

\* C7: in every reachable state the number of live namespaced cache entries
\* is at most cache_max_size.
C7_AtMostMaxSize == Cardinality(LiveEntries) <= max_size

Answers == 1..Len(an_log)

\* the j-th answer is to a request that arrived after the i-th answer had
\* gone out, with no other request in progress or arriving from the moment
\* the i-th request wrote its cache entry until the j-th looked it up
Successive(i, j) ==
    /\ an_log[j].start = an_log[i].end + 1
    /\ an_log[i].others = 0
    /\ an_log[j].lookup = an_log[j].start

\* the i-th request missed the cache, computed its record, cached it and got
\* as far as `return analysis_response`; the j-th, with the same input,
\* directly follows it and has its lookup answered by the cache
FirstThenSame(i, j) ==
    /\ Successive(i, j)
    /\ an_log[i].input = an_log[j].input
    /\ an_log[i].try_status = 200
    /\ ~an_log[i].hit
    /\ an_log[i].cached
    /\ an_log[j].get_ok

\* the j-th request returned the record of the i-th from the cache: one
\* model invocation across the two, nothing stored by the second
ServedFromCache(i, j) ==
    /\ an_log[j].status = 200
    /\ an_log[j].hit
    /\ an_log[j].body = an_log[i].try_body
    /\ an_log[i].model_calls + an_log[j].model_calls = 1
    /\ an_log[j].stores = 0
    /\ ~an_log[j].cached

\* C9: of two successive /analyze calls with identical input and parameters,
\* the cache available and the first having computed and cached its record,
\* the second returns that record from the cache; the model is invoked once
\* across the two and the second stores nothing.
C9_AsStated ==
    \A i \in Answers, j \in Answers :
        FirstThenSame(i, j) => ServedFromCache(i, j)

\* how often x occurs in the list
Count(list, x) == Cardinality({k \in 1..Len(list) : list[k] = x})
\* two lists are equal once sorted
SameSorted(a, b) ==
    /\ Len(a) = Len(b)
    /\ \A k \in 1..Len(a) : Count(a, a[k]) = Count(b, a[k])

\* C10: two requests with the same content fingerprint, the same industry and
\* the same analysis types in whatever order get the same cache key.
C10_KeyOfSortedTypes ==
    \A i \in Answers, j \in Answers :
        (/\ an_log[i].cache_key # ""
         /\ an_log[j].cache_key # ""
         /\ an_log[i].contract_hash = an_log[j].contract_hash
         /\ an_log[i].input.industry = an_log[j].input.industry
         /\ SameSorted(an_log[i].input.analysis_type, an_log[j].input.analysis_type))
            => an_log[i].cache_key = an_log[j].cache_key

(***************************************************************************)
(* Properties of /analyze/stream                                           *)
(***************************************************************************)
\* the answered request was a stream whose relay ran
IsStream(rec) == rec.provider # ""
\* what the client reads out of a frame
Decode(frame) == json_loads(frame[2])
IsFinalEvent(event) == event.items[IsFinalField] = PyBool(TRUE)
TypeOf(event) == event.items[TypeField].s
\* the positions of the final events among the frames
FinalsIn(frames) == {k \in 1..Len(frames) : IsFinalEvent(Decode(frames[k]))}
IsOpen(r) == handlers[r].pc \in {"st_open", "st_streaming"}

\* a stream in progress has sent no final event; a stream that is over has
\* sent exactly one, as its last frame
OneFinalLast ==
    /\ \A r \in Tasks : IsOpen(r) => FinalsIn(handlers[r].frames) = {}
    /\ \A i \in Answers :
          IsStream(an_log[i]) => FinalsIn(an_log[i].frames) = {Len(an_log[i].frames)}

\* C11: every stream, whether the pipeline completes, the model fails or an
\* exception is raised in the pipeline, comes to its end, and has then sent
\* exactly one event with is_final = true, as the last thing sent.
C11_ExactlyOneFinalLast ==
    /\ []OneFinalLast
    /\ []<>(\A r \in Tasks : ~IsOpen(r))

\* C11 witness: a stream whose provider failed after progress events were
\* sent has ended with one final event, sent last.
C11_Witness ==
    \E i \in Answers :
        /\ IsStream(an_log[i])
        /\ an_log[i].provider = "failed"
        /\ Len(an_log[i].frames) >= 2
        /\ FinalsIn(an_log[i].frames) = {Len(an_log[i].frames)}

\* the pipeline raised before it had produced an event
RaisedFirst(rec) == IsStream(rec) /\ rec.raised # "" /\ rec.full_response = <<>>
\* the parts of the message of an error event
MessageOf(event) == event.items[DataField].items[1].items

\* C12: when the pipeline raises before producing any event, the client
\* gets exactly one event: a final event of type error whose message holds
\* the text of the failure.
C12_SingleErrorEvent ==
    \A i \in Answers :
        RaisedFirst(an_log[i])
            => /\ Len(an_log[i].frames) = 1
               /\ LET event == Decode(an_log[i].frames[1]) IN
                    /\ TypeOf(event) = "error"
                    /\ IsFinalEvent(event)
                    /\ \E k \in 1..Len(MessageOf(event)) :
                           MessageOf(event)[k] = an_log[i].raised

\* C12 witness: chat.completions.create raised, and the stream was the one
\* error event with the provider's message.
C12_Witness ==
    \E i \in Answers :
        /\ RaisedFirst(an_log[i])
        /\ an_log[i].raised = ProviderError
        /\ Len(an_log[i].frames) = 1
        /\ TypeOf(Decode(an_log[i].frames[1])) = "error"

\* the events up to and including the first final one
RECURSIVE UpToFinal(_)
UpToFinal(produced) ==
    IF produced = <<>> THEN <<>>
    ELSE IF IsFinalEvent(Head(produced)) THEN <<Head(produced)>>
    ELSE <<Head(produced)>> \o UpToFinal(Tail(produced))
\* the frames are the events, one frame each, in their order
FramesOf(frames, produced) ==
    /\ Len(frames) = Len(produced)
    /\ \A k \in 1..Len(frames) :
          /\ Len(frames[k]) = 3
          /\ frames[k][1] = "data: "
          /\ Decode(frames[k]) = produced[k]
          /\ frames[k][3] = "\n\n"

\* C13: the frames sent to a connection are the events of its pipeline up to
\* and including the first final one, in the order produced, one frame per
\* event.
C13_FramesAreEvents ==
    /\ \A r \in Tasks :
          IsOpen(r) => FramesOf(handlers[r].frames, UpToFinal(handlers[r].produced))
    /\ \A i \in Answers :
          IsStream(an_log[i])
              => FramesOf(an_log[i].frames, UpToFinal(an_log[i].produced))

\* C13 witness: a stream of two progress events and the final
\* analysis_complete, sent as three frames while another stream was open.
C13_Witness ==
    \E i \in Answers :
        /\ IsStream(an_log[i])
        /\ an_log[i].provider = "ended"
        /\ an_log[i].others = 1
        /\ Len(an_log[i].frames) = 3
        /\ TypeOf(Decode(an_log[i].frames[1])) = "progress"
        /\ TypeOf(Decode(an_log[i].frames[3])) = "analysis_complete"

\* C14: whatever text the model has sent by the end of its stream, the
\* pipeline ends with analysis_complete, whose data is the parsed payload or
\* the degraded result, and not with an error event.
C14_ParsingNeverFails ==
    \A i \in Answers :
        (IsStream(an_log[i]) /\ an_log[i].provider = "ended")
            => LET last == an_log[i].produced[Len(an_log[i].produced)]
                   response == an_log[i].full_response
               IN  /\ TypeOf(last) = "analysis_complete"
                   /\ last.items[DataField] \in
                          {Parsed(response, TRUE), Parsed(response, FALSE),
                           Degraded(response)}

(***************************************************************************)
(* Properties of what /analyze answers                                     *)
(***************************************************************************)
\* the request got as far as the database with a result of the model
ReachedStore(rec) == rec.result # NoResult
\* how many inserts the handler attempts for the result
StoresDue(result) == IF result.issues # <<>> THEN 2 ELSE 1
\* storing the analysis or its issues failed
StoreFailed(rec) == ReachedStore(rec) /\ rec.stores < StoresDue(rec.result)
\* the body is the record computed from the result of the model
IsComputedRecord(rec) ==
    /\ rec.body.py = "dict"
    /\ rec.body.items[2] = PyStr(rec.contract_hash)
    /\ rec.body.items[3] = PyInt(Len(rec.result.issues))
    /\ rec.body.items[RiskLevelField] = PyEnum(rec.result.overall_risk)
\* the request answered last, in the state right after its answer
JustAnswered(i) == i = Len(an_log) /\ events = an_log[i].end

\* C15: when storing the analysis or its issues fails after the model has
\* returned a final payload, the request is still answered 200 with the
\* computed record, and the record is still written to the cache (the cache
\* being available).
C15_StoreFailureSwallowed ==
    \A i \in Answers :
        StoreFailed(an_log[i])
            => /\ an_log[i].status = 200
               /\ ~an_log[i].hit
               /\ IsComputedRecord(an_log[i])
               /\ Reachable
                    => /\ an_log[i].cached
                       /\ JustAnswered(i)
                            => R_GET(store, generate_key(an_log[i].cache_key))
                                   = json_dumps(an_log[i].body)

\* the request looked the cache up and was not answered from it
Missed(rec) == rec.lookup > 0 /\ ~rec.hit
\* the i-th and the j-th request had the same cache key, and the j-th
\* looked the cache up before the i-th was answered (and had written)
Simultaneous(i, j) ==
    /\ i < j
    /\ an_log[i].cache_key # ""
    /\ an_log[i].cache_key = an_log[j].cache_key
    /\ an_log[j].lookup > 0
    /\ an_log[j].lookup < an_log[i].end
\* the request invoked the model and got as far as `return analysis_response`
\* with the record computed
Computed(rec) == rec.try_status = 200 /\ ~rec.hit /\ rec.model_calls = 1

\* C25: nothing coalesces requests for one fingerprint: a request that
\* misses the cache invokes the model whatever other requests are in
\* progress, so two simultaneous requests for the same key may both do so;
\* each is answered with a complete record of its own, and once both have
\* written it the cache holds one entry under the key they share (the
\* record written last, for as long as its ttl has not elapsed).
C25_NoSingleFlight ==
    /\ \A i \in Answers : Missed(an_log[i]) => an_log[i].model_calls = 1
    /\ \A i \in Answers :
          Computed(an_log[i])
              => an_log[i].status = 200 /\ IsComputedRecord(an_log[i])
    /\ \A i \in Answers, j \in Answers :
          (/\ Simultaneous(i, j)
           /\ Computed(an_log[i]) /\ Computed(an_log[j])
           /\ an_log[i].cached /\ an_log[j].cached
           /\ JustAnswered(j)
           /\ Fresh(an_log[j].cache_key))
             => /\ R_GET(store, generate_key(an_log[j].cache_key))
                      = json_dumps(an_log[j].try_body)
                /\ Cardinality({k \in R_KEYS(store) :
                                  k.rest = md5(an_log[j].cache_key)}) = 1

\* C26: every issue stored is the child of an analysis record stored: its
\* analysis_id is the id of a row of contract_analyses.
C26_IssuesHaveParent ==
    \A k \in 1..Len(db.contract_issues) :
        \E a \in 1..Len(db.contract_analyses) :
            db.contract_analyses[a].id = db.contract_issues[k].analysis_id

ScoreField == 4
ValidRisk(score, level) == score \in 0..MaxScore /\ level \in RiskLevels
\* a record as it is returned or kept in the cache has a valid risk
ValidRecord(value) ==
    value.py = "dict" /\ Len(value.items) >= RiskLevelField
        => ValidRisk(value.items[ScoreField].n, value.items[RiskLevelField].s)

HasText(input) == input.contract_text # <<>>
HasFile(input) == input.file_upload.present
\* the request got past the rate limiter and the check of its input
PassedInputCheck(rec) ==
    /\ rec.allowed
    /\ rec.try_body # PyText(<<"Either contract_text or file_upload must be provided">>)

\* C16: a request passes the check of its input only if exactly one of text
\* and upload is present; one with neither and one with both is refused
\* with 400 before extraction, cache lookup and model invocation.
C16_ExactlyOneInput ==
    \A i \in Answers :
        LET rec == an_log[i] IN
        /\ PassedInputCheck(rec) => (HasText(rec.input) # HasFile(rec.input))
        /\ (HasText(rec.input) = HasFile(rec.input) /\ rec.allowed)
              => /\ rec.status = 400
                 /\ rec.cache_key = ""
                 /\ rec.model_calls = 0

\* the text a request asks to have analysed
InputText(input) ==
    IF HasFile(input) THEN input.file_upload.text ELSE input.contract_text

\* C17: a request whose text, raw or extracted, is under 50 characters or
\* has fewer than 2 contract terms never reaches the cache lookup or the
\* model.
C17_ContentGate ==
    \A i \in Answers :
        ~validate_document_content(InputText(an_log[i].input))
            => /\ an_log[i].cache_key = ""
               /\ an_log[i].model_calls = 0
               /\ an_log[i].status # 200

\* the model sent a payload that makes a valid record
ModelDelivered(rec) ==
    rec.model_calls = 1 /\ rec.result \in ModelResults /\ Validates(rec.result)

\* C18: every request ends with a record (200) or with status 429, 400 or
\* 500, and with no other status: 429 when the rate limiter rejects it, and
\* a record when the cache or the model delivers one.
C18_StatusOutcomes ==
    \A i \in Answers :
        /\ an_log[i].status \in {200, 429, 400, 500}
        /\ an_log[i].status = 200 <=> an_log[i].body.py = "dict"
        /\ an_log[i].status = 429 <=> ~an_log[i].allowed
        /\ ModelDelivered(an_log[i]) => an_log[i].status = 200

\* the text of an internal exception is part of the value
Carries(body) == \E k \in 1..Len(body.items) : body.items[k] \in InternalErrors

\* C19: no error response and no event of a stream carries the message text
\* of an internal exception.
C19_NoInternalDetail ==
    /\ \A i \in Answers : an_log[i].status # 200 => ~Carries(an_log[i].body)
    /\ \A i \in Answers : \A k \in 1..Len(an_log[i].frames) :
          TypeOf(Decode(an_log[i].frames[k])) = "error"
              => \A m \in 1..Len(MessageOf(Decode(an_log[i].frames[k]))) :
                    MessageOf(Decode(an_log[i].frames[k]))[m] \notin InternalErrors

(***************************************************************************)
(* Properties of the batch task                                            *)
(***************************************************************************)
\* the items whose model invocation fails
FailingItems(contracts_data) ==
    {k \in 1..Len(contracts_data) : contracts_data[k].fails}

\* C20: a batch of n items of which those of F fail at model invocation is
\* reported with completed = n - |F| and failed = |F|, and its results hold
\* a completed entry with its result for every item outside F.
C20_BatchReport ==
    batch.pc = "done"
        => LET n == Len(batch.contracts_data)
               F == FailingItems(batch.contracts_data)
           IN  /\ batch.completed = n - Cardinality(F)
               /\ batch.failed = Cardinality(F)
               /\ \A k \in (1..n) \ F :
                     \E j \in 1..Len(batch.results) :
                        /\ batch.results[j].contract_id = k
                        /\ batch.results[j].status = "completed"
                        /\ batch.results[j].result # NoResult

(***************************************************************************)
(* Properties of the worker                                                *)
(***************************************************************************)
\* C21: in a batch job every item is attempted exactly once and in input
\* order, whatever became of the items before it: a failed item is recorded
\* and the job goes on, and it ends only after the last item (nothing but a
\* time limit ends it before).
C21_EveryItemAttemptedOnce ==
    LET n == Len(batch.contracts_data)
    IN  /\ batch.i <= n
        /\ batch.pc # "failed"
              => /\ Len(batch.results) = batch.i
                 /\ \A k \in 1..batch.i : batch.results[k].contract_id = k
                 /\ batch.completed + batch.failed = batch.i
        /\ batch.pc = "done" => batch.i = n
        /\ batch.pc = "failed" => batch.error \in TimeLimits

C21_Witness ==
    /\ batch.pc = "done"
    /\ Len(batch.contracts_data) = MaxBatch
    /\ ~batch.soft
    /\ batch.results[1].status = "failed"
    /\ Len(batch.results) = MaxBatch

Terminal(j) == j.pc \in {"succeeded", "failed"}

\* C22: a single job whose pipeline fails goes from running straight to
\* failed, carrying the error message; a job that has succeeded or failed
\* changes no more (no state, no progress update) and is not run again.
C22_FailedIsTerminal ==
    [][/\ Terminal(job) => job' = job
       /\ job'.pc = "failed" /\ job.pc # "failed"
             => /\ job.pc = "running"
                /\ job'.state = "FAILURE"
                /\ job'.error # ""
                /\ job'.reports = Append(job.reports, Report("FAILURE", 0, job'.error))
       /\ job'.runs <= 1
       /\ batch.pc \in {"done", "failed"} => batch' = batch]_vars

C22_Witness ==
    /\ job.pc = "failed"
    /\ job.kind = "single"
    /\ job.error = NotIterable
    /\ job.reports = <<starting_update, Report("FAILURE", 0, NotIterable)>>

\* the updates that report a progress
Measured(reports) == {k \in 1..Len(reports) : reports[k].state # "FAILURE"}

C24_TimeoutFailsJob ==
    /\ job.soft => job.pc = "failed"
    /\ batch.soft => batch.pc = "failed"


(***************************************************************************)
(* Properties of the application object                                    *)
(***************************************************************************)
\* C28: every GET /health is answered with status code 200 and a body whose
\* status is "healthy", whatever the state of the cache, the record store
\* and the model provider when it arrives.
C28_HealthAlwaysHealthy ==
    \A i \in 1..Len(an_log) :
        an_log[i].path = "/health"
            => /\ an_log[i].response.status_code = 200
               /\ an_log[i].response.body.status = "healthy"


(***************************************************************************)
(* Properties of the eviction sweep                                        *)
(***************************************************************************)
Swept == last_step'.kind = "sweep"
Remaining(k) == R_TTL(store, k, now)
Bearing == {k \in R_KEYS(store) : Remaining(k) > 0}
Gone == DOMAIN store \ DOMAIN store'

\* the evicted entries are ones with the smallest remaining ttl: none of them
\* has more time left than a ttl-bearing entry that survives
SmallestGo ==
    /\ Gone \subseteq Bearing
    /\ \A e \in Gone : \A k \in Bearing \ Gone : Remaining(e) <= Remaining(k)

\* C29 as stated: a sweep removes entries with the smallest remaining ttl, and
\* the number it removes is 10% of the entries it enumerated, rounded down,
\* but at least 1.
C29_AsStated ==
    [][Swept => /\ SmallestGo
                /\ Cardinality(Gone)
                      = Max(1, Cardinality(R_KEYS(store)) \div EvictDivisor)]_vars

\* C29 amended: a sweep that runs alone removes entries with the smallest
\* remaining ttl among those that carry a ttl, and the number it removes is
\* 10% of the ttl-bearing entries it enumerated, rounded down, but at least
\* 1; it removes none when no enumerated entry carries a ttl.
C29_EvictsSmallestTtl ==
    [][Swept => /\ SmallestGo
                /\ Bearing # {}
                     => Cardinality(Gone)
                           = Max(1, Cardinality(Bearing) \div EvictDivisor)
                /\ Bearing = {} => Gone = {}
                /\ last_step'.evicted = Gone
                /\ last_step'.cands = Cardinality(Bearing)]_vars

\* C29 witness: a sweep over twenty or more ttl-bearing entries, beside
\* entries without a ttl, has removed more than one entry and left
\* ttl-bearing entries behind.
C29_Witness ==
    /\ last_step.kind = "sweep"
    /\ last_step.cands >= 2 * EvictDivisor
    /\ Cardinality(last_step.before) > last_step.cands
    /\ Cardinality(last_step.evicted) = last_step.cands \div EvictDivisor
    /\ Cardinality(last_step.evicted) > 1
    /\ \E k \in R_KEYS(store) : store[k].exp # NoExpiry

\* C30: a sweep deletes no entry for which the store reports no ttl: every
\* such entry is the same after the sweep as before it.
C30_NoTtlNeverEvicted ==
    [][Swept => \A k \in R_KEYS(store) :
                    Remaining(k) = NoExpiry
                        => k \in DOMAIN store' /\ store'[k] = store[k]]_vars

\* C30 witness: a sweep that enumerated entries without a ttl has removed an
\* entry, and entries without a ttl are in the store.
C30_Witness ==
    /\ last_step.kind = "sweep"
    /\ last_step.evicted # {}
    /\ \E k \in last_step.before : k \in DOMAIN store /\ store[k].exp = NoExpiry


(***************************************************************************)
(* Properties of the two endpoints together                                *)
(***************************************************************************)
\* the step is one of the stream in slot r: its admission, or a step of its
\* relay
StreamStep(r) ==
    /\ handlers'[r] # handlers[r]
    /\ handlers[r].pc \in {"st_open", "st_streaming"} \/ handlers'[r].pc = "st_open"
\* the record of a stream that was admitted, passed the input checks and ended
StreamRecord(rec) == rec.path = "/analyze/stream" /\ rec.status = 200

\* C31: no step of a stream reads or writes the cache: the store is the same
\* after the step as before it, and every stream that was admitted with a
\* valid input has invoked the model, once, whether or not the cache holds a
\* record for the same content and parameters.
C31_StreamBypassesCache ==
    /\ [][\A r \in Tasks : StreamStep(r) => UNCHANGED cacheVars]_vars
    /\ [](\A i \in 1..Len(an_log) :
            StreamRecord(an_log[i]) => an_log[i].model_calls = 1 /\ ~an_log[i].hit)
    /\ [](\A r \in Tasks : handlers[r].pc = "st_streaming" => handlers[r].model_calls = 1)

\* C31 witness: a stream for a contract has ended, having invoked the model,
\* after POST /analyze had cached a record for the same contract and
\* parameters, which is still in the cache.
C31_Witness ==
    /\ Len(an_log) = 2
    /\ an_log[1].try_status = 200 /\ an_log[1].cached
    /\ StreamRecord(an_log[2])
    /\ an_log[2].input = an_log[1].input
    /\ an_log[2].model_calls = 1
    /\ Fresh(an_log[1].cache_key)
    /\ an_log[1].cache_key = KeyOfInput(an_log[2].input)
    /\ Truthy(cache_get(store, an_log[1].cache_key))


\* the request of the record went through no stage after the rate limiter:
\* no input check, no extraction, no cache probe, no model invocation, no
\* persistence, no cache write
NoStageRan(rec) ==
    /\ rec.stages = <<"rate_limit">>
    /\ rec.contract_hash = "" /\ rec.cache_key = ""
    /\ rec.lookup = 0 /\ ~rec.hit
    /\ rec.model_calls = 0 /\ rec.produced = <<>>
    /\ rec.stores = 0 /\ ~rec.cached
\* the step ends a request that the rate limiter rejected
Rejects ==
    /\ Len(an_log') = Len(an_log) + 1
    /\ ~an_log'[Len(an_log')].allowed

\* C32: on both endpoints the rate limiter is asked before anything else: a
\* handler raises its 429 exactly when the limiter rejects the request, no
\* other request is answered 429, and a rejected request has gone through no
\* other stage and leaves the cache and the record store as they were; a
\* request in progress was admitted first.
C32_RateLimitFirst ==
    /\ [](\A i \in 1..Len(an_log) :
            /\ an_log[i].try_status = 429 <=> ~an_log[i].allowed
            /\ an_log[i].status = 429 => ~an_log[i].allowed
            /\ ~an_log[i].allowed => NoStageRan(an_log[i])
            /\ an_log[i].stages # <<>> /\ Head(an_log[i].stages) = "rate_limit")
    /\ [](\A r \in Tasks : handlers[r].pc # "idle" => handlers[r].allowed)
    /\ [][Rejects => UNCHANGED <<store, written, db>>]_vars

\* C32 witness: a client over its limit has sent a contract text to each
\* endpoint and has been rejected both times, with 429 on the stream.
C32_Witness ==
    /\ Len(an_log) = 2
    /\ {an_log[1].path, an_log[2].path} = {"/analyze", "/analyze/stream"}
    /\ \A i \in 1..2 : /\ ~an_log[i].allowed
                       /\ an_log[i].try_status = 429
                       /\ an_log[i].input.contract_text # <<>>
    /\ \E i \in 1..2 : an_log[i].status = 429


\* C33: a job tolerates the failure of the record store: a single job whose
\* model invocation returns a final payload ends succeeded even when the
\* record store does not answer, and in a batch run without a time limit
\* being met every such item is counted and recorded as completed.
C33_JobToleratesStoreFailure ==
    /\ (/\ job.pc \in {"succeeded", "failed"}
        /\ job.kind = "single" /\ ~job.soft
        /\ ~job.contract.fails /\ ~job.store_up)
           => job.pc = "succeeded"
    /\ (batch.pc = "done" /\ ~batch.soft /\ ~batch.store_up)
           => \A k \in 1..Len(batch.contracts_data) :
                 ~batch.contracts_data[k].fails
                     => batch.results[k].status = "completed"


(***************************************************************************)
(* Properties of the cache's namespace                                     *)
(***************************************************************************)
Foreign(st) == {k \in DOMAIN st : k.prefix # "clyrdia:"}
Namespaced(st) == {k \in DOMAIN st : k.prefix = "clyrdia:"}
\* the step is the start of a set by task t, up to its size check
SizeChecked(t) ==
    /\ tasks[t].pc = "idle"
    /\ tasks'[t].pc # "idle" /\ tasks'[t].op = "set"

\* C34: no step of a CacheManager operation (set with its sweep, delete,
\* increment, expire, clear_all, get, exists) deletes or changes a key
\* outside the "clyrdia:" namespace, and the size check of a set finds the
\* limit reached exactly when the namespaced keys alone are max_size or more.
C34_NamespaceOnly ==
    /\ [][\A k \in Foreign(store) : k \in DOMAIN store' /\ store'[k] = store[k]]_vars
    /\ [][\A t \in Tasks :
            SizeChecked(t)
                => /\ tasks'[t].before = Namespaced(store)
                   /\ tasks'[t].atmax
                        <=> (Reachable /\ Cardinality(Namespaced(store)) >= max_size)]_vars

\* C34 witness: clear_all, the first operation of the run, has deleted the
\* namespaced entry there was and the key of the other application is still
\* in the store.
C34_Witness ==
    /\ last_step.kind = "done" /\ last_step.op = "clear_all"
    /\ last_step.ret = PyBool(TRUE)
    /\ ops = 1 /\ ticks = 0
    /\ Namespaced(store) = {}
    /\ Foreign(store) = {ForeignKey}


(***************************************************************************)
(* Properties of sanitize_input                                            *)
(***************************************************************************)
\* the pattern occurs in the text
Occurs(pattern, text) ==
    \E i \in 1..Len(text) : IsPrefix(pattern, SubSeq(text, i, Len(text)))

\* C35: what sanitize_input returns holds none of the entries of the
\* denylist (<, >, &, the two quotes, "javascript:", "data:") and is at most
\* 10000 characters long.
C35_SanitizedIsClean ==
    \A i \in 1..Len(an_log) :
        an_log[i].returned
            => /\ \A k \in 1..Len(dangerous_chars) :
                     ~Occurs(dangerous_chars[k], an_log[i].output)
               /\ Len(Str(an_log[i].output)) <= MaxInputLength


(***************************************************************************)
(* Further properties of the rate limiter                                  *)
(***************************************************************************)
\* C36 as stated: after a call of is_allowed has returned, accepting or
\* rejecting, neither window map holds an empty list of timestamps: a client
\* has an entry in a map only with at least one timestamp in it.
C36_NoEmptyWindow ==
    /\ \A c \in DOMAIN minute_requests : minute_requests[c] # <<>>
    /\ \A c \in DOMAIN hour_requests : hour_requests[c] # <<>>

\* C36 amended: after a call of is_allowed has returned, the hour map holds
\* no empty list, and the minute map holds an empty list only for a client
\* whose call was rejected by the hour limit: that client has its full hour
\* list.  So no client has an entry without a timestamp in both maps, and a
\* client without a timestamp in either window is in neither map.
C36_NoEmptyRecord ==
    /\ \A c \in DOMAIN hour_requests : hour_requests[c] # <<>>
    /\ \A c \in DOMAIN minute_requests :
          minute_requests[c] = <<>>
              => /\ c \in DOMAIN hour_requests
                 /\ HourFull(hour_requests[c])
                 /\ Called(c) /\ ~LastCall(c).ret

\* C36 witness: a call rejected by the hour limit has left the caller with an
\* empty minute list beside its full hour list.
C36_Witness ==
    \E c \in Clients :
        /\ c \in DOMAIN minute_requests /\ minute_requests[c] = <<>>
        /\ c \in DOMAIN hour_requests /\ HourFull(hour_requests[c])
        /\ Called(c) /\ ~LastCall(c).ret /\ LastCall(c).time = now


\* the run in which client c makes the calls it made, at the times it made
\* them, and no other client calls: the values returned and the two maps
\* after the last call
RECURSIVE Alone(_, _, _, _, _)
Alone(c, calls, minute, hour, rets) ==
    IF calls = <<>> THEN [rets |-> rets, minute |-> minute, hour |-> hour]
    ELSE LET r == is_allowed(minute, hour, c, Head(calls).time)
         IN  Alone(c, Tail(calls), r.minute, r.hour, Append(rets, r.ret))
AloneRun(c) == Alone(c, rl_log[c], EmptyMap, EmptyMap, <<>>)

\* C37: the calls of the other clients make no difference to client c: every
\* call of c returns what it returns in the run where c calls alone at the
\* same times, the timestamps stored for c right after a call of c are the
\* same as in that run, and at any time those of them that are still inside
\* a window are the same.
C37_ClientsIsolated ==
    \A c \in Clients :
        LET alone == AloneRun(c) IN
        /\ [i \in 1..Len(rl_log[c]) |-> rl_log[c][i].ret] = alone.rets
        /\ (Called(c) /\ LastCall(c).time = now)
              => /\ Stamps(minute_requests, c) = Stamps(alone.minute, c)
                 /\ Stamps(hour_requests, c) = Stamps(alone.hour, c)
        /\ KeepRecent(Stamps(minute_requests, c), now - MinuteWindow)
              = KeepRecent(Stamps(alone.minute, c), now - MinuteWindow)
        /\ KeepRecent(Stamps(hour_requests, c), now - HourWindow)
              = KeepRecent(Stamps(alone.hour, c), now - HourWindow)

\* C37 witness: a client has been rejected and has timestamps stored, after
\* calls of another client that were admitted between its own.
C37_Witness ==
    \E c, d \in Clients :
        /\ c # d
        /\ Len(rl_log[c]) >= 3 /\ ~LastCall(c).ret
        /\ Stamps(hour_requests, c) # <<>>
        /\ Called(d) /\ LastCall(d).ret
        /\ rl_log[c][1].time <= LastCall(d).time
        /\ LastCall(d).time <= LastCall(c).time


\* the two answered requests agree in content fingerprint, industry and
\* analysis-type list
SameParameters(a, b) ==
    /\ a.contract_hash = b.contract_hash
    /\ a.input.industry = b.input.industry
    /\ a.input.analysis_type = b.input.analysis_type
\* the request computed its record and wrote it to the cache
ComputedAndCached(rec) == rec.try_status = 200 /\ ~rec.hit /\ rec.cached

\* C38: two /analyze requests that differ in content fingerprint, industry or
\* analysis-type list never have the same analysis cache key, and a request
\* answered from the cache is never answered with a record that a request
\* with other content or parameters computed (the record being what the
\* handler takes from the cache to return).
C38_KeysSeparate ==
    \A i \in Answers, j \in Answers :
        /\ (an_log[i].cache_key # "" /\ an_log[i].cache_key = an_log[j].cache_key)
              => SameParameters(an_log[i], an_log[j])
        /\ (/\ i < j
            /\ ComputedAndCached(an_log[i])
            /\ an_log[j].hit
            /\ an_log[j].try_status = 200
            /\ an_log[j].try_body = an_log[i].try_body)
              => SameParameters(an_log[i], an_log[j])


\* the request was answered with an error
ErrorResponse(rec) == rec.status \in {429, 400, 500}

\* C39: a request to /analyze that is answered with an error (429, 400 or
\* 500) has written no cache entry and has stored no analysis and no issue
\* record.
C39_ErrorsWriteNothing ==
    \A i \in Answers :
        (an_log[i].path = "/analyze" /\ ErrorResponse(an_log[i]))
            => /\ an_log[i].stores = 0
               /\ ~an_log[i].cached


\* how many of the results have the status
WithStatus(results, status) ==
    Cardinality({k \in 1..Len(results) : results[k].status = status})
\* what the attempt at an item comes to when no time limit is met: the
\* result the for statement over the pipeline ends with, or what it raised
Attempt(item) ==
    LET loop == sync_for(analyze_contract(item))
    IN  [raised |-> loop.raised, result |-> first_complete(loop.chunks)]
\* the entry is the outcome of the attempt at the item at index k
OutcomeOf(entry, k, item) ==
    /\ entry.contract_id = k
    /\ entry.status \in {"completed", "failed"}
    /\ entry.status = "completed"
          => /\ Attempt(item).raised = ""
             /\ entry.result = Attempt(item).result
             /\ entry.result # NoResult
    /\ entry.status = "failed"
          => /\ entry.result = NoResult
             /\ \/ entry.error = Attempt(item).raised /\ entry.error # ""
                \/ entry.error = "Analysis failed to complete"
                     /\ Attempt(item).raised = ""
                     /\ Attempt(item).result = NoResult
                \/ entry.error = SoftTimeLimitExceeded /\ batch.soft

\* C40: between the items of a batch job and at its end, completed + failed
\* is the length of results and the number of items gone through, completed
\* and failed count the entries of each status, the k-th entry is the outcome
\* of the k-th item, and a job that returns has gone through the whole batch.
C40_CountersMatchResults ==
    batch.pc \in {"loop", "done"}
        => /\ batch.completed + batch.failed = Len(batch.results)
           /\ Len(batch.results) = batch.i
           /\ batch.completed = WithStatus(batch.results, "completed")
           /\ batch.failed = WithStatus(batch.results, "failed")
           /\ \A k \in 1..Len(batch.results) :
                 OutcomeOf(batch.results[k], k, batch.contracts_data[k])
           /\ batch.pc = "done"
                 => batch.completed + batch.failed = Len(batch.contracts_data)

\* C40 witness: a batch of three has gone through two items, one of them
\* cut short by the soft time limit, with two entries and a count of two,
\* and has its third item still to come.
C40_Witness ==
    /\ batch.pc = "loop"
    /\ Len(batch.contracts_data) = MaxBatch
    /\ batch.i = 2
    /\ batch.completed + batch.failed = 2
    /\ Len(batch.results) = 2
    /\ \E k \in 1..2 : batch.results[k].error = SoftTimeLimitExceeded

====
